---------------------------- MODULE Spec2Model ----------------------------
(***************************************************************************)
(* Model of Find-Meraki-Ports-With-MAC: the MAC pattern engine             *)
(* (pkg/macaddr), result deduplication (addResult) and the two resolution  *)
(* paths (the CLI lookup flow of main and the web path handleResolve ->    *)
(* resolveDevices -> processSwitchesForResolution) with their asynchronous *)
(* forwarding-table and ARP-table jobs.                                    *)
(*                                                                         *)
(* Text is modelled as a sequence of bytes, an ASCII byte being the        *)
(* one-character string of its character, so that normalisation,           *)
(* formatting and key construction are computed as the code computes them. *)
(***************************************************************************)
EXTENDS Integers, Sequences, FiniteSets, TLC

(***************************************************************************)
(* Characters and strings                                                  *)
(***************************************************************************)
UpperLetters == <<"A","B","C","D","E","F","G","H","I","J","K","L","M",
                  "N","O","P","Q","R","S","T","U","V","W","X","Y","Z">>

LowerLetters == <<"a","b","c","d","e","f","g","h","i","j","k","l","m",
                  "n","o","p","q","r","s","t","u","v","w","x","y","z">>

UpperSet == {UpperLetters[i] : i \in 1..26}

LowerSet == {LowerLetters[i] : i \in 1..26}

LowerOf == [c \in UpperSet |-> LowerLetters[CHOOSE i \in 1..26 : UpperLetters[i] = c]]

UpperOf == [c \in LowerSet |-> UpperLetters[CHOOSE i \in 1..26 : LowerLetters[i] = c]]

ToLowerChar(c) == IF c \in UpperSet THEN LowerOf[c] ELSE c

ToUpperChar(c) == IF c \in LowerSet THEN UpperOf[c] ELSE c

\* Printable ASCII in code order, from 32 (space) to 126 (~); the backslash
\* and the backtick are written by their names
Ascii == <<" ","!","\"","#","$","%","&","'","(",")","*","+",",","-",".","/",
           "0","1","2","3","4","5","6","7","8","9",":",";","<","=",">","?","@">> \o
         UpperLetters \o <<"[","backslash","]","^","_","backtick">> \o LowerLetters \o
         <<"{","|","}","~">>

AsciiSet == {Ascii[i] : i \in 1..Len(Ascii)} \cup {"\t", "\n"}

\* Bytes of 128 and more are written by their hexadecimal value
HighBytes == {"xC5", "x81", "x82", "xE4", "xB8", "xB0", "xEF", "xBF", "xBD"}

\* The value of a byte
ByteCode ==
    [b \in AsciiSet \cup HighBytes |->
        IF b = "\t" THEN 9
        ELSE IF b = "\n" THEN 10
        ELSE IF b \in HighBytes
          THEN CASE b = "xC5" -> 197 [] b = "x81" -> 129 [] b = "x82" -> 130
                 [] b = "xE4" -> 228 [] b = "xB8" -> 184 [] b = "xB0" -> 176
                 [] b = "xEF" -> 239 [] b = "xBF" -> 191 [] b = "xBD" -> 189
        ELSE 31 + (CHOOSE i \in 1..Len(Ascii) : Ascii[i] = b)]

\* Runes outside ASCII: U+0141 and U+0142 (capital and small l with stroke),
\* U+4E30 (a CJK ideograph) and U+FFFD (utf8.RuneError)
WideRunes == {"U+0141", "U+0142", "U+4E30", "U+FFFD"}

RuneError == "U+FFFD"

\* utf8 encoding of a rune
Utf8 == [r \in WideRunes |->
           CASE r = "U+0141" -> <<"xC5", "x81">>
             [] r = "U+0142" -> <<"xC5", "x82">>
             [] r = "U+4E30" -> <<"xE4", "xB8", "xB0">>
             [] r = "U+FFFD" -> <<"xEF", "xBF", "xBD">>]

WideCode == [r \in WideRunes |->
               CASE r = "U+0141" -> 321 [] r = "U+0142" -> 322
                 [] r = "U+4E30" -> 20016 [] r = "U+FFFD" -> 65533]

\* The code point of a rune
CodePoint(r) == IF r \in WideRunes THEN WideCode[r] ELSE ByteCode[r]

\* byte(r): a rune converted to a byte keeps its low 8 bits
ByteOfRune(r) == CodePoint(r) % 256

IsASCII(s) == \A i \in 1..Len(s) : s[i] \notin HighBytes

\* for _, r := range s: the runes of a string; a byte that starts no valid
\* encoding is utf8.RuneError
RECURSIVE DecodeRunes(_)
DecodeRunes(s) ==
    IF s = <<>> THEN <<>>
    ELSE IF s[1] \notin HighBytes THEN <<s[1]>> \o DecodeRunes(Tail(s))
    ELSE IF \E r \in WideRunes : Len(Utf8[r]) <= Len(s) /\ SubSeq(s, 1, Len(Utf8[r])) = Utf8[r]
      THEN LET r == CHOOSE w \in WideRunes :
                      Len(Utf8[w]) <= Len(s) /\ SubSeq(s, 1, Len(Utf8[w])) = Utf8[w]
           IN  <<r>> \o DecodeRunes(SubSeq(s, Len(Utf8[r]) + 1, Len(s)))
    ELSE <<RuneError>> \o DecodeRunes(Tail(s))

Runes(s) == IF IsASCII(s) THEN s ELSE DecodeRunes(s)

\* strings.Builder.WriteRune for each rune
RECURSIVE EncodeRunes(_)
EncodeRunes(rs) ==
    IF rs = <<>> THEN <<>>
    ELSE (IF Head(rs) \in WideRunes THEN Utf8[Head(rs)] ELSE <<Head(rs)>>)
           \o EncodeRunes(Tail(rs))

Encode(rs) == IF \A i \in 1..Len(rs) : rs[i] \notin WideRunes THEN rs ELSE EncodeRunes(rs)

\* unicode.ToLower / unicode.ToUpper
ToLowerRune(r) == IF r = "U+0141" THEN "U+0142" ELSE ToLowerChar(r)

ToUpperRune(r) == IF r = "U+0142" THEN "U+0141" ELSE ToUpperChar(r)

\* strings.ToLower / strings.ToUpper: byte by byte on ASCII text, else
\* strings.Map over the runes
LowerRunes(rs) == [i \in 1..Len(rs) |-> ToLowerRune(rs[i])]

UpperRunes(rs) == [i \in 1..Len(rs) |-> ToUpperRune(rs[i])]

ToLower(s) ==
    IF IsASCII(s) THEN [i \in 1..Len(s) |-> ToLowerChar(s[i])]
    ELSE Encode(LowerRunes(Runes(s)))

ToUpper(s) ==
    IF IsASCII(s) THEN [i \in 1..Len(s) |-> ToUpperChar(s[i])]
    ELSE Encode(UpperRunes(Runes(s)))

\* strings.EqualFold
EqualFold(s, t) == ToLower(s) = ToLower(t)

\* strings.Contains: t occurs in s as a contiguous substring
Contains(s, t) ==
    \E i \in 0..(Len(s) - Len(t)) : \A j \in 1..Len(t) : s[i + j] = t[j]

\* strings.HasPrefix
HasPrefix(s, p) == Len(p) <= Len(s) /\ \A j \in 1..Len(p) : s[j] = p[j]

IsSpace(c) == c \in {" ", "\t", "\n"}

\* strings.TrimSpace
RECURSIVE TrimLeft(_)
TrimLeft(s) == IF s # <<>> /\ IsSpace(Head(s)) THEN TrimLeft(Tail(s)) ELSE s

RECURSIVE TrimRight(_)
TrimRight(s) ==
    IF s # <<>> /\ IsSpace(s[Len(s)]) THEN TrimRight(SubSeq(s, 1, Len(s) - 1)) ELSE s

TrimSpace(s) == TrimRight(TrimLeft(s))

\* firstNonEmpty: the first value that is not blank, else ""
RECURSIVE firstNonEmpty(_)
firstNonEmpty(values) ==
    IF values = <<>> THEN <<>>
    ELSE IF TrimSpace(Head(values)) # <<>> THEN Head(values)
    ELSE firstNonEmpty(Tail(values))

\* firstNonZeroInt: the first value that is not 0, else 0
RECURSIVE firstNonZeroInt(_)
firstNonZeroInt(values) ==
    IF values = <<>> THEN 0
    ELSE IF Head(values) # 0 THEN Head(values)
    ELSE firstNonZeroInt(Tail(values))

(***************************************************************************)
(* pkg/macaddr                                                             *)
(***************************************************************************)
Digits == {"0","1","2","3","4","5","6","7","8","9"}

\* isHexDigit(b byte)
isHexDigit(b) ==
    (b >= 48 /\ b <= 57) \/ (b >= 65 /\ b <= 70) \/ (b >= 97 /\ b <= 102)

IsSeparator(c) == c \in {":", ".", "-"}

NotSeparator(c) == ~IsSeparator(c)

\* The runes of s that are not ':', '.' or '-', written out again
DropSeparators(s) == Encode(SelectSeq(Runes(s), NotSeparator))

\* NormalizeExactMac: [ok, val, err]; len(clean) counts bytes, and each rune
\* of clean is tested as isHexDigit(byte(r))
\* The two tests of NormalizeExactMac on clean and on its runes
CheckClean(clean, runes) ==
    IF Len(clean) # 12
      THEN [ok |-> FALSE, val |-> <<>>, err |-> "invalid MAC address length"]
    ELSE IF \E i \in 1..Len(runes) : ~isHexDigit(ByteOfRune(runes[i]))
      THEN [ok |-> FALSE, val |-> <<>>, err |-> "invalid MAC address characters"]
    ELSE [ok |-> TRUE, val |-> clean, err |-> ""]

NormalizeClean(clean) == CheckClean(clean, Runes(clean))

NormalizeExactMac(input0) == NormalizeClean(DropSeparators(ToLower(input0)))

\* FormatMacColon: 12 bytes become xx:xx:xx:xx:xx:xx, anything else is
\* returned lower-cased as it is
FormatClean(clean) ==
    IF Len(clean) # 12 THEN clean
    ELSE [k \in 1..17 |-> IF k % 3 = 0 THEN ":" ELSE clean[k - (k \div 3)]]

FormatMacColon(clean0) == FormatClean(ToLower(clean0))

\* NormalizePatternInput: drop separators, keep * and [ ], upper-case
NormalizePatternInput(input0) == ToUpper(DropSeparators(input0))

\* Order of the runes, for the ranges of a regular-expression class
Ord(c) == CodePoint(c)

CharRange(lo, hi) ==
    {c \in AsciiSet \cup WideRunes : Ord(lo) <= Ord(c) /\ Ord(c) <= Ord(hi)}

\* A wildcard byte without the letters: [0-9]{2}
HexUpperNoLetters == Digits

HexUpper == Digits \cup {"A","B","C","D","E","F"}

\* The character class regexp.Compile builds from the inside of a bracket
\* (Perl syntax: '-' between two characters makes a range, elsewhere it is a
\* literal; a range whose end precedes its start does not compile)
RECURSIVE ParseClass(_)
ParseClass(r) ==
    IF r = <<>> THEN [ok |-> TRUE, set |-> {}]
    ELSE IF Len(r) >= 3 /\ r[2] = "-"
      THEN IF Ord(r[3]) < Ord(r[1])
             THEN [ok |-> FALSE, set |-> {}]
             ELSE LET rest == ParseClass(SubSeq(r, 4, Len(r)))
                  IN  [ok |-> rest.ok, set |-> CharRange(r[1], r[3]) \cup rest.set]
      ELSE LET rest == ParseClass(Tail(r))
           IN  [ok |-> rest.ok, set |-> {r[1]} \cup rest.set]

\* sanitizeBracket: token is "[" inner "]"; [ok, inner, err]; each rune of
\* inner other than '-' is tested as isHexDigit(byte(r))
CheckInner(inner, runes) ==
    IF inner = <<>>
      THEN [ok |-> FALSE, inner |-> <<>>, err |-> "empty bracket pattern"]
    ELSE IF \E i \in 1..Len(runes) :
               runes[i] # "-" /\ ~isHexDigit(ByteOfRune(runes[i]))
      THEN [ok |-> FALSE, inner |-> <<>>, err |-> "invalid bracket pattern"]
    ELSE [ok |-> TRUE, inner |-> inner, err |-> ""]

sanitizeInner(inner) == CheckInner(inner, Runes(inner))

sanitizeBracket(token) == sanitizeInner(ToUpper(SubSeq(token, 2, Len(token) - 1)))

\* strings.Index(clean[i:], "]"): offset of the first "]" at or after i, or -1
IndexOfClose(clean, i) ==
    IF \E k \in i..Len(clean) : clean[k] = "]"
      THEN (CHOOSE k \in i..Len(clean) :
                clean[k] = "]" /\ \A l \in i..(k - 1) : clean[l] # "]") - i
      ELSE -1

\* A count in which '*' is one nibble
NibblesAlwaysOne(c) == 1

\* BuildMacRegex: what a token adds to nibbleCount ('*' is one byte)
NibblesOf(c) == IF c = "*" THEN 2 ELSE 1

\* The set of characters a compiled class accepts
ClassSet(class) == IF class.ok THEN class.set ELSE {"uncompilable"}

\* The loop of BuildMacRegex from position i on (1-based); re is the
\* expression built so far, one set of accepted characters per nibble
RECURSIVE MacRegexFrom(_, _, _, _)
RECURSIVE AfterBracket(_, _, _, _, _)
RECURSIVE AtBracket(_, _, _, _, _)
MacRegexFrom(clean, i, re, nibbleCount) ==
    IF i > Len(clean)
      THEN IF nibbleCount # 12
             THEN [ok |-> FALSE, re |-> <<>>,
                   err |-> "invalid MAC pattern length (need 12 nibbles)"]
             ELSE [ok |-> TRUE, re |-> re, err |-> ""]
    ELSE IF clean[i] = "["
      THEN AtBracket(clean, i, re, nibbleCount, IndexOfClose(clean, i))
    ELSE IF clean[i] = "*"
      THEN MacRegexFrom(clean, i + 1, re \o <<HexUpper, HexUpper>>,
                        nibbleCount + NibblesOf("*"))
    ELSE IF ~isHexDigit(ByteCode[clean[i]])
      THEN [ok |-> FALSE, re |-> <<>>, err |-> "invalid MAC pattern"]
    ELSE MacRegexFrom(clean, i + 1, Append(re, {clean[i]}),
                      nibbleCount + NibblesOf(clean[i]))

\* case '[': end is the offset of the closing bracket
AtBracket(clean, i, re, nibbleCount, end) ==
    IF end = -1
      THEN [ok |-> FALSE, re |-> <<>>, err |-> "unmatched bracket in MAC pattern"]
      ELSE AfterBracket(clean, i + end + 1, re, nibbleCount,
                        sanitizeBracket(SubSeq(clean, i, i + end)))

AfterBracket(clean, next, re, nibbleCount, sanitized) ==
    IF ~sanitized.ok
      THEN [ok |-> FALSE, re |-> <<>>, err |-> sanitized.err]
      ELSE MacRegexFrom(clean, next,
                        Append(re, ClassSet(ParseClass(Runes(sanitized.inner)))),
                        nibbleCount + NibblesOf("["))

\* regexp.Compile of what the loop has written
Compile(built0) ==
    IF built0.ok /\ \E k \in 1..Len(built0.re) : built0.re[k] = {"uncompilable"}
      THEN [ok |-> FALSE, re |-> <<>>, err |-> "error parsing regexp"]
      ELSE built0

\* BuildMacRegex: [ok, re, err]; the expression is anchored at both ends
BuildMacRegex(clean) == Compile(MacRegexFrom(clean, 1, <<>>, 0))

\* The expression without its anchors: it is found at the start of the text
MatchRunesUnanchored(re, runes) ==
    Len(runes) >= Len(re) /\ \A k \in 1..Len(re) : runes[k] \in re[k]

\* re.MatchString for the anchored expression: one rune per class
MatchRunes(re, runes) ==
    Len(runes) = Len(re) /\ \A k \in 1..Len(runes) : runes[k] \in re[k]

MatchString(re, s) == MatchRunes(re, Runes(s))

NoneBuilt == [ok |-> FALSE, err |-> "", isWildcard |-> FALSE, display |-> <<>>,
              normalized |-> <<>>, re |-> <<>>]

\* An exact branch that returns the address unformatted
ExactMatcherRawDisplay(n) ==
    IF ~n.ok THEN [NoneBuilt EXCEPT !.err = n.err]
    ELSE [NoneBuilt EXCEPT !.ok = TRUE, !.normalized = n.val, !.display = n.val]

\* BuildMacMatcher without wildcard: n is what NormalizeExactMac returned
ExactMatcher(n) ==
    IF ~n.ok THEN [NoneBuilt EXCEPT !.err = n.err]
    ELSE [NoneBuilt EXCEPT !.ok = TRUE, !.normalized = n.val,
                           !.display = FormatMacColon(n.val)]

\* BuildMacMatcher with wildcard: r is what BuildMacRegex returned
WildcardMatcher(trimmed, r) ==
    IF ~r.ok THEN [NoneBuilt EXCEPT !.err = r.err]
    ELSE [NoneBuilt EXCEPT !.ok = TRUE, !.isWildcard = TRUE,
                           !.display = trimmed, !.re = r.re]

BuildTrimmed(trimmed) ==
    IF trimmed = <<>> THEN [NoneBuilt EXCEPT !.err = "MAC pattern cannot be empty"]
    ELSE IF ~(Contains(trimmed, <<"*">>) \/ Contains(trimmed, <<"[">>))
      THEN ExactMatcher(NormalizeExactMac(trimmed))
      ELSE WildcardMatcher(trimmed, BuildMacRegex(NormalizePatternInput(trimmed)))

\* BuildMacMatcher: [ok, err, isWildcard, display, normalized, re]
BuildMacMatcher(input0) == BuildTrimmed(TrimSpace(input0))

\* The wildcard predicate: n is what NormalizeExactMac returned for mac
WildcardAccepts(re, n) == n.ok /\ MatchString(re, ToUpper(n.val))

\* The predicate BuildMacMatcher returns, applied to mac
matcher(m, mac) ==
    IF ~m.isWildcard THEN EqualFold(mac, m.normalized)
    ELSE WildcardAccepts(m.re, NormalizeExactMac(mac))

(***************************************************************************)
(* pkg/filters                                                             *)
(***************************************************************************)
IsSwitchExactCase(d) ==
    \/ d.ProductType = <<"s","w","i","t","c","h">>
    \/ HasPrefix(d.Model, <<"M","S">>)
    \/ HasPrefix(d.Model, <<"C","9">>)

\* FilterSwitches: productType "switch", or model starting with MS or C9
IsSwitch(d) ==
    \/ d.ProductType = <<"s","w","i","t","c","h">>
    \/ HasPrefix(ToUpper(d.Model), <<"M","S">>)
    \/ HasPrefix(ToUpper(d.Model), <<"C","9">>)

FilterSwitches(devices) == SelectSeq(devices, IsSwitch)

\* MatchesSwitchFilter: case-insensitive substring
MatchesSwitchFilter(name, filter) == Contains(ToLower(name), ToLower(filter))

\* FilterSwitchesByName
FilterSwitchesByName(devices, filter) ==
    IF filter = <<>> THEN devices
    ELSE LET Keep(d) == MatchesSwitchFilter(d.Name, filter)
         IN  SelectSeq(devices, Keep)

\* MatchesPortFilter: equal, or the filter is a substring of the port
MatchesPortFilter(port, filter) == port = filter \/ Contains(port, filter)

(***************************************************************************)
(* Result rows and deduplication                                           *)
(***************************************************************************)
\* The key addResult builds: fmt.Sprintf("%s|%s|%s", SwitchSerial, Port, MAC)
ResultKeyWithLastSeen(row) ==
    row.SwitchSerial \o <<"|">> \o row.Port \o <<"|">> \o row.MAC \o <<"|">> \o row.LastSeen

ResultKey(row) == row.SwitchSerial \o <<"|">> \o row.Port \o <<"|">> \o row.MAC

\* addResult(index, rows, row): the index and the rows after the call
addResult(index, rows, row) ==
    IF ResultKey(row) \in index
      THEN [index |-> index, rows |-> rows]
      ELSE [index |-> index \cup {ResultKey(row)}, rows |-> Append(rows, row)]

\* output.ResultRow
ResultRow(org, net, swName, serial, port, mac, ip, hn, lastSeen, vlan, mode) ==
    [OrgName |-> org, NetworkName |-> net, SwitchName |-> swName,
     SwitchSerial |-> serial, Port |-> port, MAC |-> mac, IP |-> ip,
     Hostname |-> hn, LastSeen |-> lastSeen, VLAN |-> vlan, PortMode |-> mode]

\* The identity of a row for deduplication
RowTriple(row) == <<row.SwitchSerial, row.Port, row.MAC>>

(***************************************************************************)
(* Upstream data: the answers the Dashboard API may give                   *)
(***************************************************************************)
NoText == <<>>

MacA == <<"0","0",":","1","1",":","2","2",":","3","3",":","4","4",":","5","A">>

MacC == <<"0","0",":","1","1",":","2","2",":","3","3",":","5","5",":","0","1">>

PatWild == <<"0","0",":","1","1",":","2","2",":","3","3",":","4","4",":","*">>

PatBad == <<"0","0",":","1","1">>

IpA == <<"1","0",".","0",".","0",".","5">>

T1 == <<"t","1">>

T2 == <<"t","2">>

Unknown == <<"u","n","k","n","o","w","n">>

All == <<"A","L","L">>

Org1 == [ID |-> <<"o","1">>, Name |-> <<"A","c","m","e">>]

Org2 == [ID |-> <<"o","2">>, Name |-> <<"B","e","t","a">>]

Net1 == [ID |-> <<"n","1">>, Name |-> <<"H","Q">>]

Net2 == [ID |-> <<"n","2">>, Name |-> <<"L","a","b">>]

Serial1 == <<"Q","1">>

\* A serial, as a client record reports it, that holds the separator of the
\* deduplication key
SerialBar == <<"Q","1","|","1">>

Serial2 == <<"Q","2">>

Serial3 == <<"Q","3">>

\* meraki.Device
Switch1 == [Serial |-> Serial1, Name |-> <<"c","o","r","e">>,
            Model |-> <<"M","S","1","2","0">>, ProductType |-> <<"s","w","i","t","c","h">>]

Switch2 == [Serial |-> Serial2, Name |-> NoText,
            Model |-> <<"c","9","3","0","0">>, ProductType |-> NoText]

Switch3 == [Serial |-> Serial3, Name |-> <<"e","d","g","e">>,
            Model |-> <<"M","S","2","2","5">>, ProductType |-> NoText]

Ap1 == [Serial |-> <<"Q","9">>, Name |-> <<"a","p">>,
        Model |-> <<"M","R","3","3">>, ProductType |-> <<"w","i","r","e","l","e","s","s">>]

NoDevice == [Serial |-> NoText, Name |-> NoText, Model |-> NoText, ProductType |-> NoText]

\* meraki.NetworkClient
NetworkClient(mac, serial, port, ip, lastSeen) ==
    [MAC |-> mac, Switchport |-> port, SwitchportName |-> NoText, Port |-> NoText,
     LastSeen |-> lastSeen, RecentDeviceSerial |-> serial, RecentDeviceName |-> NoText,
     IP |-> ip, Notes |-> NoText, Description |-> NoText, DhcpHostname |-> NoText]

\* A client record with its notes, description and DHCP hostname
Named(c, notes, description, dhcp) ==
    [c EXCEPT !.Notes = notes, !.Description = description, !.DhcpHostname = dhcp]

\* meraki.Client
DeviceClient(mac, port, lastSeen) ==
    [MAC |-> mac, Switchport |-> NoText, SwitchportName |-> NoText, Port |-> port,
     LastSeen |-> lastSeen]

\* One entry of a completed forwarding-table job; an absent field reads as
\* "" (strings) or 0 (vlan)
MacEntry(mac, portId, interface) ==
    [mac |-> mac, portId |-> portId, port |-> NoText, interface |-> interface,
     vlan |-> 0, type |-> NoText]

\* An entry that carries the VLAN and the type of its port
Tagged(entry, vlan, type) == [entry EXCEPT !.vlan = vlan, !.type = type]

Access == <<"a","c","c","e","s","s">>

\* One entry of a completed ARP-table job
ArpEntry(ip, mac) == [ip |-> ip, mac |-> mac]

\* The answer of an upstream call: a non-nil error (whatever its cause), or a
\* value
Err == [err |-> TRUE, val |-> <<>>]

Ok(v) == [err |-> FALSE, val |-> v]

MaxPollFlag == 1

\* firstNonZeroInt(*macPollFlag, parseIntEnv("MERAKI_MAC_POLL"), 15)
DefaultMacTablePoll == 15

OrganizationAnswers == {Err, Ok(<<>>), Ok(<<Org1>>), Ok(<<Org2, Org1>>)}

\* The networks live in the first organization
NetworkAnswers(orgID) ==
    IF orgID = Org1.ID THEN {Err, Ok(<<Net1>>), Ok(<<Net1, Net2>>)}
    ELSE {Err, Ok(<<>>)}

\* A device belongs to one network: the first network holds two switches and
\* an access point, every other network one switch
DeviceAnswers(networkID) ==
    IF networkID = Net1.ID
      THEN {Err, Ok(<<Switch1, Ap1>>), Ok(<<Switch1, Ap1, Switch2>>)}
      ELSE {Err, Ok(<<Switch3>>)}

\* The last answer: a record seen on port "1|1" of the first switch, one on a
\* device that is not among the network's devices, one on the access point
NetworkClientAnswers(networkID) ==
    IF networkID = Net1.ID
      THEN {Err, Ok(<<>>),
            Ok(<<NetworkClient(MacA, Serial1, <<"1">>, IpA, T1)>>),
            Ok(<<NetworkClient(MacC, Serial1, <<"3">>, IpA, T1),
                 NetworkClient(MacA, Serial1, <<"1">>, NoText, T2)>>),
            Ok(<<NetworkClient(MacA, Serial1, <<"1","|","1">>, IpA, T1),
                 NetworkClient(MacA, SerialBar, <<"1">>, IpA, T1),
                 NetworkClient(MacA, Ap1.Serial, <<"0">>, IpA, T2)>>)}
      ELSE {Err, Ok(<<>>)}

\* Answers to one poll of a forwarding-table job: an error, or a status
\* with the entries a complete job carries
MacTableAnswers ==
    {[err |-> TRUE, status |-> NoText, entries |-> <<>>],
     [err |-> FALSE, status |-> <<"p","e","n","d","i","n","g">>, entries |-> <<>>],
     [err |-> FALSE, status |-> <<"f","a","i","l","e","d">>, entries |-> <<>>]}
    \cup
    {[err |-> FALSE, status |-> <<"c","o","m","p","l","e","t","e">>, entries |-> e] :
        e \in {<<>>,
               <<Tagged(MacEntry(MacC, <<"3">>, NoText), 10, Access),
                 Tagged(MacEntry(MacC, NoText, NoText), 10, Access)>>,
               <<MacEntry(MacA, <<"2">>, NoText), MacEntry(MacA, NoText, <<"1">>)>>}}

Complete == <<"c","o","m","p","l","e","t","e">>

Failed == <<"f","a","i","l","e","d">>

JobId == <<"j","1">>

\* CreateMacTableLookup / CreateArpTableLookup: an error, or an id (the id
\* the response carries may be the empty string)
CreateAnswers == {Err, Ok(NoText), Ok(JobId)}

DeviceClientAnswers == {Err, Ok(<<>>), Ok(<<DeviceClient(MacA, <<"1">>, T2)>>)}

ArpAnswers ==
    {[err |-> TRUE, status |-> NoText, entries |-> <<>>],
     [err |-> FALSE, status |-> <<"p","e","n","d","i","n","g">>, entries |-> <<>>],
     [err |-> FALSE, status |-> Failed, entries |-> <<>>],
     [err |-> FALSE, status |-> Complete, entries |-> <<>>],
     [err |-> FALSE, status |-> Complete, entries |-> <<ArpEntry(IpA, MacA)>>]}

\* GetSwitchPort answers an error, or the port's type and access VLAN;
\* ResolveHostname answers "" when the reverse lookup fails.
\* The port configuration and the reverse DNS zone do not change during a run
Worlds ==
    {[switchPort |-> Err, hostname |-> NoText],
     [switchPort |-> Ok([Type |-> NoText, Vlan |-> 0]), hostname |-> <<"p","c">>],
     [switchPort |-> Ok([Type |-> <<"t","r","u","n","k">>, Vlan |-> 20]),
      hostname |-> <<"p","c">>]}

Serials == {Serial1, Serial2, Serial3, Ap1.Serial, SerialBar}

(***************************************************************************)
(* State                                                                   *)
(***************************************************************************)
VARIABLES
    path,             \* "cli" (main), "web" (handleResolve) or "dedup"
    world,            \* what GetSwitchPort and the reverse lookup answer in this run
    pc,               \* position in the running flow
    cfg,              \* Config (with the --mac flag of the CLI)
    req,              \* web request: MAC, NetworkID, NetworkIDs, OrgID, APIKey
    org,              \* selected organization (web: targetOrg)
    orgs, orgI,       \* web slow path: the organizations, and the one being searched
    selectedNetworks, \* CLI: what selectNetworks returned
    networkIDs,       \* web: the normalised list of requested network ids
    targetNetwork,    \* web: the network resolveDevices found
    netI,             \* index of the network being processed
    compiled,         \* what BuildMacMatcher returned
    resolvedHostname, \* hostname pre-set in IP mode ("" in MAC mode)
    devices, switches, devI,
    networkClients, rowI,
    serialArpCache,
    macTableID, attempt, status, macEntries, foundInTable,
    clients,
    pendingRow, ret, arpAttempt,
    results, resultsIndex, allResults,
    outcome,          \* "" while running, then "rows" or "error"
    upstreamCalled,   \* an upstream request has been sent in this run
    failedFetches,    \* kinds of upstream fetch that returned an error
    hist,             \* what was done for the current switch (history)
    passHist,         \* per device, the jobs of the current pass (history)
    lastRow, calls,   \* the row of the latest addResult call, and how many
    \* pkg/meraki, one getAllPages call
    maxRetries,       \* m.maxRetries, as NewClient set it
    pages,            \* the upstream: what a GET of each URL answers when it succeeds
    fullURL, all,     \* getAllPages: the URL to fetch next, the records so far
    httpAttempt,      \* doRequest: attempt
    response,         \* the latest HTTP response (or transport error)
    got,              \* what getAllPages returned, and the wrapper built on it
    httpPc,           \* "" (not this flow), "doRequest" or "returned"
    httpHist,         \* requests and sleeps of the running doRequest call (history)
    \* pkg/macaddr, one pattern or address
    origin,           \* the parts the text under test was written from (history)
    input,            \* the text handed to BuildMacMatcher / NormalizeExactMac
    built,            \* what BuildMacMatcher returned
    subject, accepted,\* an address handed to the predicate, and its verdict
    normalized,       \* NormalizeExactMac(input)
    display,          \* FormatMacColon of the normalized address
    again,            \* NormalizeExactMac(display)
    macPc,            \* "" (not this flow), "input", "compiled", ...
    hostOverrides,    \* the package-level override table of pkg/meraki
    earlier,          \* the input of the load before the last one (history)
    loaded,           \* the input of the last SetHostOverrides (history)
    query,            \* the arguments of the last LookupHostOverride
    hostname,         \* what the last LookupHostOverride returned
    ovPc,             \* "" (not this flow), "start", "loaded", "looked"
    ipAsked,            \* the networks and the address handed to ResolveIPToMAC
    ipSeen,             \* what GetNetworkClients answered it, one answer per network
    resolution,       \* what ResolveIPToMAC returned
    args,             \* one call of FilterSwitches/FilterSwitchesByName or selectNetworks
    returned,         \* what the call returned
    \* the log hub of the web server
    hub,              \* wsLogHub: mu (who holds the mutex) and clients
    chans,            \* per handler, the channel subscribe made: buffer, closed
    handlers,         \* per handleWebSocketLogs call: position, peer, reader goroutine
    senders,          \* per goroutine that logs: position in broadcast, message
    hubHist           \* messages sent so far, what each channel was offered (history)

inputVars == <<path, world, req>>

scopeVars == <<cfg, org, orgs, orgI, selectedNetworks, networkIDs, targetNetwork, netI,
               compiled, resolvedHostname>>

netVars == <<devices, switches, devI, networkClients, rowI, serialArpCache>>

jobVars == <<macTableID, attempt, status, macEntries, foundInTable, clients>>

rowVars == <<pendingRow, ret, arpAttempt>>

resultVars == <<results, resultsIndex, allResults>>

histVars == <<upstreamCalled, failedFetches, hist, passHist, lastRow, calls>>

clientVars == <<maxRetries, pages, fullURL, all, httpAttempt, response, got, httpPc,
                httpHist>>

macVars == <<origin, input, built, subject, accepted, normalized, display, again, macPc>>

overrideVars == <<hostOverrides, earlier, loaded, query, hostname, ovPc>>

ipVars == <<ipAsked, ipSeen, resolution>>

callVars == <<args, returned>>

hubVars == <<hub, chans, handlers, senders, hubHist>>

libVars == <<clientVars, macVars, overrideVars, ipVars, callVars, hubVars>>

vars == <<pc, outcome, inputVars, scopeVars, netVars, jobVars, rowVars, resultVars,
          histVars, libVars>>

NoRow == ResultRow(NoText, NoText, NoText, NoText, NoText, NoText, NoText, NoText,
                   NoText, 0, NoText)

NoPending == [row |-> NoRow, normMAC |-> NoText]

\* History of the forwarding-table step of the current switch: requests
\* sent, and what the polls answered
NoHist == [serial |-> NoText, jobCreated |-> FALSE, polls |-> 0, sleeps |-> 0,
           terminal |-> FALSE, failed |-> FALSE,
           pollAfterTerminal |-> FALSE, pollAfterFailed |-> FALSE,
           loopEnded |-> FALSE,
           completed |-> FALSE, matched |-> FALSE, emitted |-> FALSE,
           fallback |-> 0, processed |-> FALSE]

\* History of the jobs on one device in one pass (counts stop at 2)
NoPassHist == [macJobs |-> 0, arpJobs |-> 0, arpNeeded |-> FALSE,
               arpFailed |-> FALSE, arpPollAfterFailed |-> FALSE]

FreshPassHist == [s \in Serials |-> NoPassHist]

Count2(n) == IF n < 2 THEN n + 1 ELSE n

\* polls, sleeps, failed, pollAfterFailed and loopEnded describe the poll loop
\* that is running or has just ended; they are cleared by the step after it
AfterLoop(h) == [h EXCEPT !.polls = 0, !.sleeps = 0, !.failed = FALSE,
                          !.pollAfterFailed = FALSE, !.loopEnded = FALSE]

NoMatcher == [ok |-> FALSE, err |-> "", isWildcard |-> FALSE, display |-> <<>>,
              normalized |-> <<>>, re |-> <<>>]

NoNetwork == [ID |-> NoText, Name |-> NoText]

NoReq == [MAC |-> NoText, IP |-> NoText, NetworkID |-> NoText, NetworkIDs |-> <<>>,
          OrgID |-> NoText, APIKey |-> NoText]

NoCfg == [OrgName |-> NoText, OrgID |-> NoText, NetworkName |-> NoText,
          MacTablePoll |-> 0, SwitchFilter |-> NoText, PortFilter |-> NoText,
          mac |-> NoText, IPAddress |-> NoText]

\* The state every flow starts from, apart from its inputs
Idle ==
    /\ org = Org1 /\ orgs = <<>> /\ orgI = 1 /\ selectedNetworks = <<>> /\ netI = 1
    /\ networkIDs = <<>> /\ targetNetwork = NoNetwork
    /\ compiled = NoMatcher /\ resolvedHostname = NoText
    /\ devices = <<>> /\ switches = <<>> /\ devI = 1
    /\ networkClients = <<>> /\ rowI = 1
    /\ serialArpCache = << >>
    /\ macTableID = NoText /\ attempt = 0 /\ status = NoText /\ macEntries = <<>>
    /\ foundInTable = FALSE /\ clients = <<>>
    /\ pendingRow = NoPending /\ ret = "" /\ arpAttempt = 0
    /\ results = <<>> /\ resultsIndex = {} /\ allResults = <<>>
    /\ outcome = ""
    /\ upstreamCalled = FALSE /\ failedFetches = {}
    /\ hist = NoHist /\ passHist = FreshPassHist
    /\ lastRow = NoRow /\ calls = 0

\* pkg/macaddr on its own, before it starts
NoNormal == [ok |-> FALSE, val |-> <<>>, err |-> ""]

NoOrigin == [kind |-> "", parts |-> <<>>]

\* A nil table
NilTable == [nil |-> TRUE, rules |-> {}]

NoInput == [kind |-> "empty", entries |-> <<>>]

NoQuery == [ip |-> "", org |-> "", net |-> ""]

OverrideIdle ==
    /\ hostOverrides = NilTable /\ earlier = NoInput /\ loaded = NoInput
    /\ query = NoQuery /\ hostname = "" /\ ovPc = ""

NoAsked == [networks |-> <<>>, ip |-> NoText]

NoResolution == [done |-> FALSE, err |-> FALSE, mac |-> NoText, networkID |-> NoText,
                 hostname |-> NoText]

IpIdle == ipAsked = NoAsked /\ ipSeen = <<>> /\ resolution = NoResolution

NoArgs == [fn |-> "", devices |-> <<>>, filter |-> <<>>, name |-> <<>>, networks |-> <<>>,
           orgs |-> <<>>, fields |-> <<>>]

NoReturn == [done |-> FALSE, devices |-> <<>>, ok |-> FALSE, networks |-> <<>>,
             org |-> [ID |-> <<>>, Name |-> <<>>], port |-> <<>>]

CallIdle == args = NoArgs /\ returned = NoReturn

HubIdle ==
    /\ hub = [mu |-> "", clients |-> {}] /\ chans = << >> /\ handlers = << >>
    /\ senders = << >> /\ hubHist = << >>

MacIdle ==
    /\ origin = NoOrigin
    /\ input = NoText /\ built = NoMatcher /\ subject = NoText /\ accepted = FALSE
    /\ normalized = NoNormal /\ display = NoText /\ again = NoNormal /\ macPc = ""

\* pkg/meraki on its own, before it starts
NoResponse == [transport |-> FALSE, status |-> 0, retryAfter |-> NoText, body |-> NoText,
               link |-> NoText]

NoError == [kind |-> "", code |-> 0, body |-> NoText]

NoGot == [err |-> FALSE, error |-> NoError, val |-> <<>>,
          wrapper |-> [err |-> FALSE, error |-> NoError, val |-> <<>>]]

\* History of the running doRequest call (sent, sleeps, only429, sleptOn,
\* lastSleep), and of the getAllPages call: the URLs fetched, in order
NoHttpHist == [arg |-> 0, sent |-> 0, sleeps |-> 0, only429 |-> TRUE, sleptOn |-> {},
               lastSleep |-> 0, arrived |-> <<>>, gaveUp |-> FALSE]

ClientIdle ==
    /\ maxRetries = 0 /\ pages = << >> /\ fullURL = NoText /\ all = <<>>
    /\ httpAttempt = 0 /\ response = NoResponse /\ got = NoGot /\ httpPc = ""
    /\ httpHist = NoHttpHist

(***************************************************************************)
(* Helpers shared by the two resolution paths                              *)
(***************************************************************************)
\* The zero meraki.Organization
NoOrg == [ID |-> NoText, Name |-> NoText]

selectOrganizationFirst(name, list) ==
    IF name = NoText
      THEN IF Len(list) >= 1 THEN [ok |-> TRUE, org |-> list[1]]
                             ELSE [ok |-> FALSE, org |-> NoOrg]
    ELSE IF \E i \in 1..Len(list) : EqualFold(list[i].Name, name)
      THEN [ok |-> TRUE,
            org |-> list[CHOOSE i \in 1..Len(list) :
                           /\ EqualFold(list[i].Name, name)
                           /\ \A j \in 1..(i - 1) : ~EqualFold(list[j].Name, name)]]
    ELSE [ok |-> FALSE, org |-> NoOrg]

\* selectOrganization: [ok, org]
selectOrganization(name, list) ==
    IF name = NoText
      THEN IF Len(list) = 1 THEN [ok |-> TRUE, org |-> list[1]]
                            ELSE [ok |-> FALSE, org |-> NoOrg]
    ELSE IF \E i \in 1..Len(list) : EqualFold(list[i].Name, name)
      THEN [ok |-> TRUE,
            org |-> list[CHOOSE i \in 1..Len(list) :
                           /\ EqualFold(list[i].Name, name)
                           /\ \A j \in 1..(i - 1) : ~EqualFold(list[j].Name, name)]]
    ELSE [ok |-> FALSE, org |-> NoOrg]

selectNetworksLast(name, networks) ==
    IF ToUpper(name) = All THEN [ok |-> TRUE, networks |-> networks]
    ELSE IF \E i \in 1..Len(networks) : EqualFold(networks[i].Name, name)
      THEN [ok |-> TRUE,
            networks |-> <<networks[CHOOSE i \in 1..Len(networks) :
                              /\ EqualFold(networks[i].Name, name)
                              /\ \A j \in (i + 1)..Len(networks) :
                                    ~EqualFold(networks[j].Name, name)]>>]
    ELSE [ok |-> FALSE, networks |-> <<>>]

\* selectNetworks: [ok, networks]
selectNetworks(name, networks) ==
    IF ToUpper(name) = All THEN [ok |-> TRUE, networks |-> networks]
    ELSE IF \E i \in 1..Len(networks) : EqualFold(networks[i].Name, name)
      THEN [ok |-> TRUE,
            networks |-> <<networks[CHOOSE i \in 1..Len(networks) :
                              /\ EqualFold(networks[i].Name, name)
                              /\ \A j \in 1..(i - 1) : ~EqualFold(networks[j].Name, name)]>>]
    ELSE [ok |-> FALSE, networks |-> <<>>]

\* deviceBySerial[serial]: the last device with that serial, or the zero Device
DeviceBySerial(devs, serial) ==
    IF \E i \in 1..Len(devs) : devs[i].Serial = serial
      THEN devs[CHOOSE i \in 1..Len(devs) :
                  /\ devs[i].Serial = serial
                  /\ \A j \in (i + 1)..Len(devs) : devs[j].Serial # serial]
      ELSE NoDevice

\* enrichPortInfo sends GetSwitchPort only for a known serial and port
NeedsSwitchPort(serial, portID) ==
    ~(serial = NoText \/ portID = NoText \/ portID = Unknown)

\* An enrichment that takes whatever a successful lookup returned
enrichPortInfoOverwrite(serial, portID, defaultVLAN, defaultMode, answer) ==
    IF ~NeedsSwitchPort(serial, portID) \/ answer.err
      THEN [vlan |-> defaultVLAN, portMode |-> defaultMode]
      ELSE [vlan |-> answer.val.Vlan, portMode |-> answer.val.Type]

\* enrichPortInfo, given the answer of GetSwitchPort: [vlan, portMode]
enrichPortInfo(serial, portID, defaultVLAN, defaultMode, answer) ==
    IF ~NeedsSwitchPort(serial, portID) \/ answer.err
      THEN [vlan |-> defaultVLAN, portMode |-> defaultMode]
      ELSE [vlan |-> IF answer.val.Vlan > 0 THEN answer.val.Vlan ELSE defaultVLAN,
            portMode |-> IF answer.val.Type # NoText THEN answer.val.Type
                         ELSE defaultMode]

\* The answer enrichPortInfo sees: none is asked for when it sends nothing
SwitchPortAnswer(serial, portID) ==
    IF NeedsSwitchPort(serial, portID) THEN world.switchPort ELSE Err

\* macToIP[normMAC]: the IP of the last network client record that carries an
\* IP and whose address normalises to normMAC, "" when there is none
macToIP(ncs, normMAC) ==
    LET hits == {i \in 1..Len(ncs) :
                    /\ ncs[i].IP # NoText
                    /\ NormalizeExactMac(ncs[i].MAC).ok
                    /\ NormalizeExactMac(ncs[i].MAC).val = normMAC}
    IN  IF hits = {} THEN NoText
        ELSE ncs[CHOOSE i \in hits : \A j \in hits : j <= i].IP

\* The port of a forwarding-table entry: portId, else port, else interface
EntryPortID(entry) ==
    IF entry.portId # NoText THEN entry.portId
    ELSE IF entry.port # NoText THEN entry.port
    ELSE entry.interface

\* An entry is taken for its address alone
EntryMatchesAny(m, entry) ==
    /\ entry.mac # NoText
    /\ NormalizeExactMac(entry.mac).ok

\* An entry of the table that names an address the predicate accepts
EntryMatches(m, entry) ==
    /\ entry.mac # NoText
    /\ NormalizeExactMac(entry.mac).ok
    /\ matcher(m, NormalizeExactMac(entry.mac).val)

\* The map FetchArpMap builds from the entries of a complete job:
\* separators stripped and lower-cased address -> ip; later entries win
ArpMapOf(entries) ==
    LET Clean(mac) == SelectSeq(ToLower(mac), NotSeparator)
        good == {i \in 1..Len(entries) :
                    entries[i].ip # NoText /\ entries[i].mac # NoText}
        keys == {Clean(entries[i].mac) : i \in good}
    IN  [k \in keys |->
            entries[CHOOSE i \in good :
                      /\ Clean(entries[i].mac) = k
                      /\ \A j \in good : Clean(entries[j].mac) = k => j <= i].ip]

ArpLookup(cache, serial, normMAC) ==
    IF serial \in DOMAIN cache /\ normMAC \in DOMAIN cache[serial]
      THEN cache[serial][normMAC] ELSE NoText

\* Byte-wise s < t
RECURSIVE Less(_, _)
Less(s, t) ==
    IF t = <<>> THEN FALSE
    ELSE IF s = <<>> THEN TRUE
    ELSE IF Head(s) = Head(t) THEN Less(Tail(s), Tail(t))
    ELSE Ord(Head(s)) < Ord(Head(t))

\* The less function of the final sort.Slice: network, then switch, then port
RowLess(a, b) ==
    IF a.NetworkName = b.NetworkName
      THEN IF a.SwitchName = b.SwitchName THEN Less(a.Port, b.Port)
           ELSE Less(a.SwitchName, b.SwitchName)
      ELSE Less(a.NetworkName, b.NetworkName)

\* sort.Slice on at most 12 rows is an insertion sort
RECURSIVE InsertRow(_, _)
InsertRow(sorted, row) ==
    IF sorted = <<>> THEN <<row>>
    ELSE IF RowLess(row, sorted[Len(sorted)])
      THEN Append(InsertRow(SubSeq(sorted, 1, Len(sorted) - 1), row), sorted[Len(sorted)])
    ELSE Append(sorted, row)

RECURSIVE SortRows(_)
SortRows(rows) ==
    IF rows = <<>> THEN <<>>
    ELSE InsertRow(SortRows(SubSeq(rows, 1, Len(rows) - 1)), rows[Len(rows)])

(***************************************************************************)
(* IP-first mode: ResolveHostname, ClientHostname, ResolveIPToMAC           *)
(***************************************************************************)
\* meraki.ResolveHostname: "" for no address and for a failed reverse lookup
ResolveHostname(ip) == IF ip = NoText THEN NoText ELSE world.hostname

isUUIDLike(s) ==
    /\ Len(s) = 36
    /\ \A i \in 1..Len(s) :
          IF i \in {9, 14, 19, 24} THEN s[i] = "-" ELSE isHexDigit(ByteCode[s[i]])

\* meraki.ClientHostname: Notes > Description (if not UUID-like) > DhcpHostname
ClientHostname(nc) ==
    IF nc.Notes # NoText THEN nc.Notes
    ELSE IF nc.Description # NoText /\ ~isUUIDLike(nc.Description) THEN nc.Description
    ELSE nc.DhcpHostname

\* The last record of the list that has the address, 0 when there is none
LastWithIP(records, ip) ==
    IF \A j \in 1..Len(records) : records[j].IP # ip THEN 0
    ELSE CHOOSE j \in 1..Len(records) :
            records[j].IP = ip /\ \A k \in (j + 1)..Len(records) : records[k].IP # ip

\* "for _, client := range clients { if client.IP == ip": the first record
\* that has the address, 0 when there is none
FirstWithIP(records, ip) ==
    IF \A j \in 1..Len(records) : records[j].IP # ip THEN 0
    ELSE CHOOSE j \in 1..Len(records) :
            records[j].IP = ip /\ \A k \in 1..(j - 1) : records[k].IP # ip

\* The return inside the loop
FoundClient(network, client, hn) ==
    [done |-> TRUE, err |-> FALSE, mac |-> client.MAC, networkID |-> network.ID,
     hostname |-> IF hn = NoText THEN ClientHostname(client) ELSE hn]

\* The loop over the networks from the i-th on; a network whose fetch
\* failed is skipped
RECURSIVE ScanNetworks(_, _, _, _, _)
ScanNetworks(networks, answers, i, ip, hn) ==
    IF i > Len(networks)
      THEN [done |-> TRUE, err |-> TRUE, mac |-> NoText, networkID |-> NoText,
            hostname |-> hn]
    ELSE IF answers[i].err \/ FirstWithIP(answers[i].val, ip) = 0
      THEN ScanNetworks(networks, answers, i + 1, ip, hn)
    ELSE FoundClient(networks[i], answers[i].val[FirstWithIP(answers[i].val, ip)], hn)

\* client.ResolveIPToMAC(ctx, orgID, networks, ip), answers being what
\* GetNetworkClients returns for each network
ResolveIPToMAC(networks, answers, ip) ==
    ScanNetworks(networks, answers, 1, ip, ResolveHostname(ip))

\* An address that has IpA as a prefix, and one no record has
IpA0 == IpA \o <<"0">>

IpB == <<"1","0",".","0",".","0",".","9">>

Uuid ==
    <<"0","1","2","3","4","5","6","7","-","8","9","a","b","-","c","d","e","f","-",
      "A","B","C","D","-","0","1","2","3","4","5","6","7","8","9","a","b">>

ClientNotes ==
    Named(NetworkClient(MacA, Serial1, <<"1">>, IpA, T1),
          <<"p","r","i","n","t","e","r">>, <<"d","e","s","k">>, <<"d","h">>)

ClientUuid == Named(NetworkClient(MacC, Serial1, <<"3">>, IpA, T1), NoText, Uuid, <<"d","h">>)

ClientPlain == NetworkClient(MacA, Serial1, <<"1">>, IpA, T2)

ClientLonger == Named(NetworkClient(MacC, Serial1, <<"3">>, IpA0, T1), <<"n","a","s">>, NoText, NoText)

ClientNoIP == Named(NetworkClient(MacC, Serial1, <<"3">>, NoText, T1), NoText, <<"d","e","s","k">>, NoText)

\* GetNetworkClients as answered to ResolveIPToMAC in a run of main or of
\* resolveDevices
ResolveAnswers(networkID) ==
    IF networkID = Net1.ID
      THEN {Err, Ok(<<ClientLonger, ClientNotes>>), Ok(<<ClientPlain>>)}
      ELSE {Err, Ok(<<ClientUuid>>)}

AnswerTuples(networks) ==
    {a \in [1..Len(networks) -> UNION {ResolveAnswers(n.ID) : n \in {Net1, Net2}}] :
        \A i \in 1..Len(networks) : a[i] \in ResolveAnswers(networks[i].ID)}

(***************************************************************************)
(* The CLI lookup flow (main)                                              *)
(***************************************************************************)
\* The flags of a run; --mac-poll left at 0 gives the default budget
CliConfigs ==
    {[NoCfg EXCEPT !.NetworkName = n,
                   !.MacTablePoll = firstNonZeroInt(<<flag, 0, DefaultMacTablePoll>>),
                   !.PortFilter = pf, !.mac = m] :
        n \in {All, <<"h","q">>}, flag \in 1..MaxPollFlag,
        pf \in {NoText, <<"3">>}, m \in {PatWild, PatBad}}
    \cup
    {[NoCfg EXCEPT !.NetworkName = <<"h","q">>,
                   !.MacTablePoll = firstNonZeroInt(<<0, 0, DefaultMacTablePoll>>),
                   !.mac = PatWild],
     [NoCfg EXCEPT !.NetworkName = <<"h","q">>,
                   !.MacTablePoll = firstNonZeroInt(<<1, 0, DefaultMacTablePoll>>),
                   !.PortFilter = <<"1">>, !.mac = PatWild],
     [NoCfg EXCEPT !.NetworkName = <<"h","q">>,
                   !.MacTablePoll = firstNonZeroInt(<<1, 0, DefaultMacTablePoll>>),
                   !.SwitchFilter = <<"C","o","r">>, !.mac = PatWild]}
    \cup
    {[NoCfg EXCEPT !.NetworkName = n,
                   !.MacTablePoll = firstNonZeroInt(<<1, 0, DefaultMacTablePoll>>),
                   !.IPAddress = IpA] : n \in {All, <<"h","q">>}}

InitCli ==
    /\ path = "cli" /\ pc = "cli_orgs"
    /\ world \in Worlds
    /\ cfg \in CliConfigs /\ req = NoReq
    /\ Idle /\ OverrideIdle /\ IpIdle /\ CallIdle /\ HubIdle /\ ClientIdle /\ MacIdle

\* exitWithError: the run ends with status 1 and prints no rows
Exit == pc' = "done" /\ outcome' = "error"

\* orgs := client.GetOrganizations; single-org auto-selection; selectOrganization
CliGetOrganizations ==
    /\ path = "cli" /\ pc = "cli_orgs"
    /\ upstreamCalled' = TRUE
    /\ \E answer \in OrganizationAnswers :
         IF answer.err
           THEN /\ Exit
                /\ failedFetches' = failedFetches \cup {"organizations"}
                /\ UNCHANGED <<cfg, org>>
           ELSE LET name == IF Len(answer.val) = 1 THEN answer.val[1].Name
                            ELSE cfg.OrgName
                    sel == selectOrganization(name, answer.val)
                IN  /\ cfg' = [cfg EXCEPT !.OrgName = name]
                    /\ UNCHANGED failedFetches
                    /\ IF sel.ok
                         THEN org' = sel.org /\ pc' = "cli_networks" /\ UNCHANGED outcome
                         ELSE Exit /\ UNCHANGED org
    /\ UNCHANGED <<inputVars, libVars, orgs, orgI, selectedNetworks, networkIDs, targetNetwork, netI,
                   compiled, resolvedHostname, netVars, jobVars, rowVars, resultVars,
                   hist, passHist, lastRow, calls>>

\* networks := client.GetNetworks(org.ID); selectNetworks
CliGetNetworks ==
    /\ path = "cli" /\ pc = "cli_networks"
    /\ upstreamCalled' = TRUE
    /\ \E answer \in NetworkAnswers(org.ID) :
         IF answer.err
           THEN /\ Exit
                /\ failedFetches' = failedFetches \cup {"networks"}
                /\ UNCHANGED selectedNetworks
           ELSE LET sel == selectNetworks(cfg.NetworkName, answer.val)
                IN  /\ UNCHANGED failedFetches
                    /\ IF sel.ok
                         THEN /\ selectedNetworks' = sel.networks
                              /\ pc' = "cli_matcher" /\ UNCHANGED outcome
                         ELSE Exit /\ UNCHANGED selectedNetworks
    /\ UNCHANGED <<inputVars, libVars, cfg, org, orgs, orgI, networkIDs, targetNetwork, netI,
                   compiled, resolvedHostname, netVars, jobVars, rowVars, resultVars,
                   hist, passHist, lastRow, calls>>

\* matcher, normalized, isWildcard, err = macaddr.BuildMacMatcher(*macFlag)
CliBuildMatcher ==
    /\ path = "cli" /\ pc = "cli_matcher" /\ cfg.IPAddress = NoText
    /\ LET m == BuildMacMatcher(cfg.mac)
       IN  IF m.ok
             THEN compiled' = m /\ pc' = "cli_devices" /\ UNCHANGED outcome
             ELSE Exit /\ UNCHANGED compiled
    /\ UNCHANGED <<inputVars, libVars, cfg, org, orgs, orgI, selectedNetworks, networkIDs,
                   targetNetwork, netI, resolvedHostname,
                   netVars, jobVars, rowVars, resultVars, histVars>>

\* What main does with the answer of ResolveIPToMAC: its hostname goes to a
\* variable of the inner block ("resolvedMAC, _, resolvedHostname, err :="),
\* the resolvedHostname the rows read keeps its value
CliResolved(r, m) ==
    /\ resolution' = r
    /\ IF ~r.err /\ m.ok
         THEN compiled' = m /\ pc' = "cli_devices" /\ UNCHANGED outcome
         ELSE Exit /\ UNCHANGED compiled

\* IP resolution mode: client.ResolveIPToMAC(ctx, org.ID, selectedNetworks,
\* cfg.IPAddress), then macaddr.BuildMacMatcher(resolvedMAC)
CliResolveIP ==
    /\ path = "cli" /\ pc = "cli_matcher" /\ cfg.IPAddress # NoText
    /\ upstreamCalled' = TRUE
    /\ ipAsked' = [networks |-> selectedNetworks, ip |-> cfg.IPAddress]
    /\ \E answers \in AnswerTuples(selectedNetworks) :
         /\ ipSeen' = answers
         /\ failedFetches' = IF \E i \in 1..Len(answers) : answers[i].err
                                THEN failedFetches \cup {"networkClients"}
                                ELSE failedFetches
         /\ CliResolved(ResolveIPToMAC(selectedNetworks, answers, cfg.IPAddress),
                        BuildMacMatcher(ResolveIPToMAC(selectedNetworks, answers,
                                                       cfg.IPAddress).mac))
    /\ UNCHANGED <<inputVars, clientVars, macVars, overrideVars, callVars, hubVars, cfg, org, orgs, orgI,
                   selectedNetworks, networkIDs, targetNetwork, netI, resolvedHostname,
                   netVars, jobVars, rowVars, resultVars, hist, passHist, lastRow, calls>>

\* Head of the loop over selectedNetworks: devices := client.GetDevices(net.ID)
CliGetDevices ==
    /\ path = "cli" /\ pc = "cli_devices" /\ netI <= Len(selectedNetworks)
    /\ upstreamCalled' = TRUE
    /\ \E answer \in DeviceAnswers(selectedNetworks[netI].ID) :
         IF answer.err
           THEN /\ Exit
                /\ failedFetches' = failedFetches \cup {"devices"}
                /\ UNCHANGED <<devices, switches>>
           ELSE /\ devices' = answer.val
                /\ switches' = FilterSwitchesByName(FilterSwitches(answer.val),
                                                    cfg.SwitchFilter)
                /\ pc' = "cli_netclients"
                /\ UNCHANGED <<outcome, failedFetches>>
    /\ UNCHANGED <<inputVars, libVars, scopeVars, devI, networkClients, rowI, serialArpCache,
                   jobVars, rowVars, resultVars, hist, passHist, lastRow, calls>>

\* networkClients := client.GetNetworkClients(net.ID); fresh serialArpCache
CliGetNetworkClients ==
    /\ path = "cli" /\ pc = "cli_netclients"
    /\ upstreamCalled' = TRUE
    /\ \E answer \in NetworkClientAnswers(selectedNetworks[netI].ID) :
         IF answer.err
           THEN /\ Exit
                /\ failedFetches' = failedFetches \cup {"networkClients"}
                /\ UNCHANGED <<networkClients, rowI, serialArpCache>>
           ELSE /\ networkClients' = answer.val
                /\ rowI' = 1
                /\ serialArpCache' = << >>
                /\ pc' = "cli_client_rows"
                /\ UNCHANGED <<outcome, failedFetches>>
    /\ UNCHANGED <<inputVars, libVars, scopeVars, devices, switches, devI,
                   jobVars, rowVars, resultVars, hist, passHist, lastRow, calls>>

\* One iteration of "for _, c := range networkClients", up to the call of
\* ipAndHostname
CliClientRow ==
    /\ path = "cli" /\ pc = "cli_client_rows" /\ rowI <= Len(networkClients)
    /\ LET c == networkClients[rowI]
           n == NormalizeExactMac(c.MAC)
           serial == TrimSpace(c.RecentDeviceSerial)
           dev == DeviceBySerial(devices, serial)
           switchName == firstNonEmpty(<<dev.Name, c.RecentDeviceName, serial>>)
           port == firstNonEmpty(<<c.SwitchportName, c.Switchport, c.Port, Unknown>>)
           rich == enrichPortInfo(serial, port, 0, NoText, SwitchPortAnswer(serial, port))
       IN  IF /\ n.ok /\ matcher(compiled, n.val) /\ serial # NoText
              /\ MatchesSwitchFilter(switchName, cfg.SwitchFilter)
              /\ MatchesPortFilter(port, cfg.PortFilter)
             THEN /\ pendingRow' =
                       [row |-> ResultRow(org.Name, selectedNetworks[netI].Name,
                                  switchName, serial, port, FormatMacColon(n.val),
                                  c.IP, NoText, c.LastSeen, rich.vlan, rich.portMode),
                        normMAC |-> n.val]
                  /\ ret' = "cli_client_rows"
                  /\ pc' = "cli_ip"
                  /\ UNCHANGED rowI
             ELSE /\ rowI' = rowI + 1
                  /\ UNCHANGED <<pendingRow, ret, pc>>
    /\ UNCHANGED <<outcome, inputVars, libVars, scopeVars, devices, switches, devI, networkClients,
                   serialArpCache, jobVars, arpAttempt, resultVars, histVars>>

\* End of the loop over networkClients: on to the loop over switches
CliClientRowsDone ==
    /\ path = "cli" /\ pc = "cli_client_rows" /\ rowI > Len(networkClients)
    /\ devI' = 1
    /\ rowI' = 1
    /\ pc' = "cli_switch"
    /\ UNCHANGED <<outcome, inputVars, libVars, scopeVars, devices, switches, networkClients,
                   serialArpCache, jobVars, rowVars, resultVars, histVars>>

\* ipAndHostname, first part: ip := knownIP, else macToIP[normMAC]
KnownIP(p) == IF p.row.IP # NoText THEN p.row.IP
              ELSE macToIP(networkClients, p.normMAC)

\* ipAndHostname reaches FetchArpMap: no IP so far, and no cached map
ArpNeeded(p) ==
    /\ KnownIP(p) = NoText
    /\ p.row.SwitchSerial # NoText
    /\ p.row.SwitchSerial \notin DOMAIN serialArpCache

\* FetchArpMap returns: its map is stored in serialArpCache[serial]
ArpReturn(serial, map) ==
    /\ serialArpCache' = (serial :> map) @@ serialArpCache
    /\ arpAttempt' = 0
    /\ pc' = "cli_ip"

\* FetchArpMap, CreateArpTableLookup
ArpCreate ==
    /\ pc = "cli_ip" /\ ArpNeeded(pendingRow)
    /\ LET serial == pendingRow.row.SwitchSerial
       IN  \E answer \in {Err, Ok(JobId)} :
             /\ passHist' = [passHist EXCEPT ![serial].arpJobs = Count2(@)]
             /\ IF answer.err
                  THEN ArpReturn(serial, << >>)
                  ELSE /\ arpAttempt' = 0
                       /\ pc' = "arp_sleep"
                       /\ UNCHANGED serialArpCache
    /\ UNCHANGED <<outcome, inputVars, libVars, scopeVars, devices, switches, devI, networkClients,
                   rowI, jobVars, pendingRow, ret, resultVars,
                   upstreamCalled, failedFetches, hist, lastRow, calls>>

\* FetchArpMap, loop head and time.Sleep(2 * time.Second)
ArpSleep ==
    /\ pc = "arp_sleep" /\ arpAttempt < cfg.MacTablePoll
    /\ pc' = "arp_poll"
    /\ UNCHANGED <<outcome, inputVars, libVars, scopeVars, netVars, jobVars, rowVars, resultVars,
                   histVars>>

\* FetchArpMap, the loop ends with the budget used up
ArpBudgetSpent ==
    /\ pc = "arp_sleep" /\ arpAttempt >= cfg.MacTablePoll
    /\ ArpReturn(pendingRow.row.SwitchSerial, << >>)
    /\ UNCHANGED <<outcome, inputVars, libVars, scopeVars, devices, switches, devI, networkClients,
                   rowI, jobVars, pendingRow, ret, resultVars, histVars>>

\* FetchArpMap, GetArpTableLookup and what follows it in the loop body
ArpPoll ==
    /\ pc = "arp_poll"
    /\ LET serial == pendingRow.row.SwitchSerial
       IN  \E answer \in ArpAnswers :
             /\ passHist' = [passHist EXCEPT
                               ![serial].arpPollAfterFailed = @ \/ passHist[serial].arpFailed,
                               ![serial].arpFailed =
                                   @ \/ (~answer.err /\ answer.status = Failed)]
             /\ IF answer.err \/ answer.status = Failed
                  THEN ArpReturn(serial, << >>)
                ELSE IF answer.status = Complete
                  THEN ArpReturn(serial, ArpMapOf(answer.entries))
                ELSE /\ arpAttempt' = arpAttempt + 1
                     /\ pc' = "arp_sleep"
                     /\ UNCHANGED serialArpCache
    /\ UNCHANGED <<outcome, inputVars, libVars, scopeVars, devices, switches, devI, networkClients,
                   rowI, jobVars, pendingRow, ret, resultVars,
                   upstreamCalled, failedFetches, hist, lastRow, calls>>

\* "foundInTable = true" after the addResult of a row from the table
FoundNever(found, source) == found

FoundAfter(found, source) == found \/ source = "entries"

\* ipAndHostname, second part, and addResult with the finished row
CliEmitRow ==
    /\ path = "cli" /\ pc = "cli_ip" /\ ~ArpNeeded(pendingRow)
    /\ LET serial == pendingRow.row.SwitchSerial
           known == KnownIP(pendingRow)
           ip == IF known # NoText THEN known
                 ELSE ArpLookup(serialArpCache, serial, pendingRow.normMAC)
           hn == IF resolvedHostname = NoText /\ ip # NoText
                   THEN world.hostname ELSE resolvedHostname
           row == [pendingRow.row EXCEPT !.IP = ip, !.Hostname = hn]
           added == addResult(resultsIndex, results, row)
       IN  /\ results' = added.rows
           /\ resultsIndex' = added.index
           /\ passHist' = [passHist EXCEPT
                             ![serial].arpNeeded = @ \/ known = NoText,
                             ![serial].arpFailed = FALSE,
                             ![serial].arpPollAfterFailed = FALSE]
    /\ hist' = [hist EXCEPT !.emitted = @ \/ (ret = "entries")]
    /\ foundInTable' = FoundAfter(foundInTable, ret)
    /\ rowI' = rowI + 1
    /\ pc' = ret
    /\ pendingRow' = NoPending /\ ret' = "" /\ arpAttempt' = 0
    /\ UNCHANGED <<outcome, inputVars, libVars, scopeVars, devices, switches, devI, networkClients,
                   serialArpCache, macTableID, attempt, status, macEntries, clients,
                   allResults, upstreamCalled, failedFetches, lastRow, calls>>

\* Where the flow goes for the device-scoped client history, and for the
\* next switch
FallbackPc == IF path = "cli" THEN "cli_fallback" ELSE "web_fallback"

SwitchPc == IF path = "cli" THEN "cli_switch" ELSE "web_switch"

\* After the poll loop: the entries are scanned when the job is complete and
\* its table is not empty, otherwise the device clients are asked for
AfterPollLoop(st, entries) ==
    /\ macTableID' = NoText /\ attempt' = 0 /\ status' = NoText
    /\ rowI' = 1
    /\ foundInTable' = FALSE
    /\ IF st = Complete /\ Len(entries) > 0
         THEN pc' = "entries" /\ macEntries' = entries
         ELSE pc' = FallbackPc /\ macEntries' = <<>>

\* A poll ends the loop: "if err != nil { break }", "if status == complete { break }"
PollEndsOnErrorOnly(answer) == answer.err

PollEnds(answer) == answer.err \/ answer.status = Complete

\* History of one poll of the forwarding-table job
NotePoll(answer) ==
    hist' = [hist EXCEPT
               !.polls = @ + 1,
               !.pollAfterTerminal = @ \/ hist.terminal,
               !.pollAfterFailed = @ \/ hist.failed,
               !.terminal = @ \/ answer.err \/ answer.status = Complete,
               !.failed = @ \/ (~answer.err /\ answer.status = Failed),
               !.loopEnded = PollEnds(answer),
               !.completed = @ \/ (~answer.err /\ answer.status = Complete),
               !.matched = @ \/ (/\ ~answer.err /\ answer.status = Complete
                                 /\ \E i \in 1..Len(answer.entries) :
                                      EntryMatches(compiled, answer.entries[i]))]

\* Head of "for _, dev := range switches": CreateMacTableLookup; the poll
\* loop is entered with "err == nil && macTableID != """
CliCreateMacTable ==
    /\ path = "cli" /\ pc = "cli_switch" /\ devI <= Len(switches)
    /\ LET serial == switches[devI].Serial
       IN  \E answer \in CreateAnswers :
             /\ hist' = [NoHist EXCEPT !.serial = serial,
                                       !.jobCreated = ~answer.err /\ answer.val # NoText]
             /\ passHist' = [passHist EXCEPT ![serial].macJobs = Count2(@)]
             /\ IF ~answer.err /\ answer.val # NoText
                  THEN /\ macTableID' = answer.val
                       /\ attempt' = 0
                       /\ status' = NoText
                       /\ macEntries' = <<>>
                       /\ pc' = "job_sleep"
                  ELSE /\ macTableID' = NoText
                       /\ pc' = "cli_fallback"
                       /\ UNCHANGED <<attempt, status, macEntries>>
    /\ UNCHANGED <<outcome, inputVars, libVars, scopeVars, netVars, foundInTable, clients, rowVars,
                   resultVars, upstreamCalled, failedFetches, lastRow, calls>>

\* Poll loop head, "attempt < MacTablePoll", and time.Sleep(2 * time.Second);
\* the loop of main and the loop of processSwitchesForResolution are the same
JobSleep ==
    /\ pc = "job_sleep" /\ attempt < cfg.MacTablePoll
    /\ pc' = "job_poll"
    /\ hist' = [hist EXCEPT !.sleeps = @ + 1]
    /\ UNCHANGED <<outcome, inputVars, libVars, scopeVars, netVars, jobVars, rowVars, resultVars,
                   upstreamCalled, failedFetches, passHist, lastRow, calls>>

\* The poll loop ends with the budget used up
JobBudgetSpent ==
    /\ pc = "job_sleep" /\ attempt >= cfg.MacTablePoll
    /\ AfterPollLoop(status, macEntries)
    /\ hist' = [hist EXCEPT !.loopEnded = TRUE]
    /\ UNCHANGED <<outcome, inputVars, libVars, scopeVars, devices, switches, devI, networkClients,
                   serialArpCache, clients, rowVars, resultVars,
                   upstreamCalled, failedFetches, passHist, lastRow, calls>>

\* macEntries, status, err = client.GetMacTableLookup and the rest of the body
JobPoll ==
    /\ pc = "job_poll"
    /\ \E answer \in MacTableAnswers :
         /\ NotePoll(answer)
         /\ IF PollEnds(answer)
              THEN AfterPollLoop(answer.status, answer.entries)
              ELSE /\ macEntries' = answer.entries
                   /\ status' = answer.status
                   /\ attempt' = attempt + 1
                   /\ pc' = "job_sleep"
                   /\ UNCHANGED <<macTableID, rowI, foundInTable>>
    /\ UNCHANGED <<outcome, inputVars, libVars, scopeVars, devices, switches, devI, networkClients,
                   serialArpCache, clients, rowVars, resultVars,
                   upstreamCalled, failedFetches, passHist, lastRow, calls>>

\* The CLI drops a matching entry whose port the --port filter excludes
\* before it counts as found; the web path has no port filter
PassesPortFilter(port) == path = "cli" => MatchesPortFilter(port, cfg.PortFilter)

\* The hostname and IP of a row of the web path: no ARP lookup, no reverse
\* lookup
WebAdd(row, normMAC) ==
    LET added == addResult(resultsIndex, results, row)
    IN  /\ results' = added.rows
        /\ resultsIndex' = added.index
        /\ passHist' = [passHist EXCEPT
                          ![row.SwitchSerial].arpNeeded =
                              @ \/ (row.IP = NoText /\ macToIP(networkClients, normMAC) = NoText)]

\* One iteration of "for _, entry := range macEntries": in the CLI up to the
\* call of ipAndHostname, in the web path with its addResult
EntryRow ==
    /\ pc = "entries" /\ rowI <= Len(macEntries)
    /\ LET entry == macEntries[rowI]
           dev == switches[devI]
           n == NormalizeExactMac(entry.mac)
           portID == EntryPortID(entry)
           port == firstNonEmpty(<<portID, Unknown>>)
           asked == IF path = "cli" THEN port ELSE portID
           rich == enrichPortInfo(dev.Serial, asked, entry.vlan, entry.type,
                                  SwitchPortAnswer(dev.Serial, asked))
           netName == IF path = "cli" THEN selectedNetworks[netI].Name
                      ELSE targetNetwork.Name
           row == ResultRow(org.Name, netName, firstNonEmpty(<<dev.Name, dev.Serial>>),
                            dev.Serial, port, FormatMacColon(n.val), NoText,
                            resolvedHostname, NoText, rich.vlan, rich.portMode)
       IN  IF EntryMatches(compiled, entry) /\ PassesPortFilter(port)
             THEN IF path = "cli"
                    THEN /\ pendingRow' = [row |-> row, normMAC |-> n.val]
                         /\ ret' = "entries"
                         /\ pc' = "cli_ip"
                         /\ hist' = AfterLoop(hist)
                         /\ UNCHANGED <<rowI, foundInTable, resultVars, passHist>>
                    ELSE /\ WebAdd(row, n.val)
                         /\ foundInTable' = FoundAfter(foundInTable, "entries")
                         /\ rowI' = rowI + 1
                         /\ hist' = [AfterLoop(hist) EXCEPT !.emitted = TRUE]
                         /\ UNCHANGED <<pendingRow, ret, pc, allResults>>
             ELSE /\ rowI' = rowI + 1
                  /\ hist' = AfterLoop(hist)
                  /\ UNCHANGED <<pendingRow, ret, pc, foundInTable, resultVars, passHist>>
    /\ UNCHANGED <<outcome, inputVars, libVars, scopeVars, devices, switches, devI, networkClients,
                   serialArpCache, macTableID, attempt, status, macEntries, clients,
                   arpAttempt, upstreamCalled, failedFetches, lastRow, calls>>

\* The next switch: the locals of the loop body go out of scope
NextSwitch ==
    /\ devI' = devI + 1
    /\ pc' = SwitchPc
    /\ rowI' = 1
    /\ macEntries' = <<>> /\ foundInTable' = FALSE /\ clients' = <<>>

\* End of the loop over macEntries: "if foundInTable { continue }"
EntriesDone ==
    /\ pc = "entries" /\ rowI > Len(macEntries)
    /\ IF foundInTable
         THEN /\ NextSwitch
              /\ hist' = [AfterLoop(hist) EXCEPT !.processed = TRUE]
         ELSE /\ pc' = FallbackPc
              /\ rowI' = 1 /\ macEntries' = <<>>
              /\ hist' = AfterLoop(hist)
              /\ UNCHANGED <<devI, foundInTable, clients>>
    /\ UNCHANGED <<outcome, inputVars, libVars, scopeVars, devices, switches, networkClients,
                   serialArpCache, macTableID, attempt, status, rowVars, resultVars,
                   upstreamCalled, failedFetches, passHist, lastRow, calls>>

\* clients, err := client.GetDeviceClients(ctx, dev.Serial)
CliGetDeviceClients ==
    /\ path = "cli" /\ pc = "cli_fallback"
    /\ \E answer \in DeviceClientAnswers :
         IF answer.err
           THEN /\ failedFetches' = failedFetches \cup {"deviceClients"}
                /\ hist' = [AfterLoop(hist) EXCEPT !.fallback = @ + 1, !.processed = TRUE]
                /\ NextSwitch
           ELSE /\ clients' = answer.val
                /\ rowI' = 1
                /\ pc' = "cli_device_rows"
                /\ hist' = [AfterLoop(hist) EXCEPT !.fallback = @ + 1]
                /\ UNCHANGED <<failedFetches, devI, macEntries, foundInTable>>
    /\ UNCHANGED <<outcome, inputVars, libVars, scopeVars, devices, switches, networkClients,
                   serialArpCache, macTableID, attempt, status,
                   rowVars, resultVars, upstreamCalled, passHist, lastRow, calls>>

\* One iteration of "for _, c := range clients", up to ipAndHostname
CliDeviceRow ==
    /\ path = "cli" /\ pc = "cli_device_rows" /\ rowI <= Len(clients)
    /\ LET c == clients[rowI]
           dev == switches[devI]
           n == NormalizeExactMac(c.MAC)
           port == firstNonEmpty(<<c.SwitchportName, c.Switchport, c.Port, Unknown>>)
           rich == enrichPortInfo(dev.Serial, port, 0, NoText,
                                  SwitchPortAnswer(dev.Serial, port))
       IN  IF n.ok /\ matcher(compiled, n.val) /\ MatchesPortFilter(port, cfg.PortFilter)
             THEN /\ pendingRow' =
                       [row |-> ResultRow(org.Name, selectedNetworks[netI].Name,
                                  firstNonEmpty(<<dev.Name, dev.Serial>>), dev.Serial,
                                  port, FormatMacColon(n.val), NoText, NoText,
                                  c.LastSeen, rich.vlan, rich.portMode),
                        normMAC |-> n.val]
                  /\ ret' = "cli_device_rows"
                  /\ pc' = "cli_ip"
                  /\ UNCHANGED rowI
             ELSE /\ rowI' = rowI + 1
                  /\ UNCHANGED <<pendingRow, ret, pc>>
    /\ UNCHANGED <<outcome, inputVars, libVars, scopeVars, devices, switches, devI, networkClients,
                   serialArpCache, jobVars, arpAttempt, resultVars, histVars>>

\* End of the loop over the device's clients
CliDeviceRowsDone ==
    /\ path = "cli" /\ pc = "cli_device_rows" /\ rowI > Len(clients)
    /\ NextSwitch
    /\ hist' = [hist EXCEPT !.processed = TRUE]
    /\ UNCHANGED <<outcome, inputVars, libVars, scopeVars, devices, switches, networkClients,
                   serialArpCache, macTableID, attempt, status, rowVars, resultVars,
                   upstreamCalled, failedFetches, passHist, lastRow, calls>>

\* The locals of one pass over a network go out of scope
EndPass ==
    /\ devices' = <<>> /\ switches' = <<>> /\ devI' = 1
    /\ networkClients' = <<>> /\ rowI' = 1 /\ serialArpCache' = << >>
    /\ hist' = NoHist /\ passHist' = FreshPassHist

\* End of the loop over switches: the next network
CliNetworkDone ==
    /\ path = "cli" /\ pc = "cli_switch" /\ devI > Len(switches)
    /\ netI' = netI + 1
    /\ pc' = "cli_devices"
    /\ EndPass
    /\ UNCHANGED <<outcome, inputVars, libVars, cfg, org, orgs, orgI, selectedNetworks, networkIDs,
                   targetNetwork, compiled, resolvedHostname,
                   jobVars, rowVars, resultVars,
                   upstreamCalled, failedFetches, lastRow, calls>>

\* After the last network: sort.Slice(results) and the writer
CliOutput ==
    /\ path = "cli" /\ pc = "cli_devices" /\ netI > Len(selectedNetworks)
    /\ results' = SortRows(results)
    /\ outcome' = "rows"
    /\ pc' = "done"
    /\ UNCHANGED <<inputVars, libVars, scopeVars, netVars, jobVars, rowVars, resultsIndex, allResults,
                   histVars>>

NextCli ==
    \/ CliGetOrganizations \/ CliGetNetworks \/ CliBuildMatcher \/ CliResolveIP
    \/ CliGetDevices \/ CliGetNetworkClients
    \/ CliClientRow \/ CliClientRowsDone
    \/ ArpCreate \/ ArpSleep \/ ArpBudgetSpent \/ ArpPoll \/ CliEmitRow
    \/ CliCreateMacTable
    \/ CliGetDeviceClients \/ CliDeviceRow \/ CliDeviceRowsDone
    \/ CliNetworkDone \/ CliOutput

\* The steps the two resolution paths share
NextJob == JobSleep \/ JobBudgetSpent \/ JobPoll \/ EntryRow \/ EntriesDone

(***************************************************************************)
(* The web path: handleResolve, resolveDevices,                            *)
(* processSwitchesForResolution (MAC mode)                                 *)
(***************************************************************************)
WebRequests ==
    {[NoReq EXCEPT !.MAC = m, !.NetworkID = t[1], !.NetworkIDs = t[2], !.OrgID = o,
                   !.APIKey = <<"k">>] :
        m \in {PatWild, PatBad, NoText},
        t \in {<<Net1.ID, <<>>>>, <<NoText, <<Net1.ID, Net2.ID>>>>, <<NoText, <<>>>>},
        o \in {NoText, Org1.ID}}
    \cup {[NoReq EXCEPT !.MAC = PatWild, !.NetworkID = Net1.ID]}
    \cup {[NoReq EXCEPT !.MAC = m, !.IP = IpA, !.NetworkID = Net1.ID, !.OrgID = Org1.ID,
                        !.APIKey = <<"k">>] : m \in {NoText, PatBad}}

InitWeb ==
    /\ path = "web" /\ pc = "web_validate"
    /\ world \in Worlds
    /\ cfg = NoCfg /\ req \in WebRequests
    /\ Idle /\ OverrideIdle /\ IpIdle /\ CallIdle /\ HubIdle /\ ClientIdle /\ MacIdle

\* handleResolve up to the loop: the 400 answers, and the list of network ids
WebValidate ==
    /\ path = "web" /\ pc = "web_validate"
    /\ LET ids == IF Len(req.NetworkIDs) = 0 /\ req.NetworkID # NoText
                    THEN <<req.NetworkID>> ELSE req.NetworkIDs
       IN  IF \/ req.APIKey = NoText
              \/ Len(ids) = 0
              \/ (req.MAC = NoText /\ req.IP = NoText)
             THEN pc' = "done" /\ outcome' = "error" /\ UNCHANGED <<networkIDs, netI>>
             ELSE /\ networkIDs' = ids
                  /\ netI' = 1
                  /\ pc' = "web_network"
                  /\ UNCHANGED outcome
    /\ UNCHANGED <<inputVars, libVars, cfg, org, orgs, orgI, selectedNetworks, targetNetwork,
                   compiled, resolvedHostname, netVars, jobVars, rowVars, resultVars,
                   histVars>>

\* The Config handleResolve builds for one network id: MacTablePoll is not
\* set, and stays at the zero value
WebConfig(netID) == [NoCfg EXCEPT !.OrgID = req.OrgID, !.NetworkName = netID]

\* The first network of the list with the id
FindNetwork(networks, id) ==
    IF \E i \in 1..Len(networks) : networks[i].ID = id
      THEN [ok |-> TRUE,
            net |-> networks[CHOOSE i \in 1..Len(networks) :
                               /\ networks[i].ID = id
                               /\ \A j \in 1..(i - 1) : networks[j].ID # id]]
      ELSE [ok |-> FALSE, net |-> NoNetwork]

\* resolveDevices returns an error
Fail == pc' = "web_failed"

\* resolveDevices, fast path: GetNetworks(cfg.OrgID) and the search for the
\* network id
WebFastNetworks ==
    /\ path = "web" /\ pc = "web_network" /\ netI <= Len(networkIDs)
    /\ req.OrgID # NoText
    /\ cfg' = WebConfig(networkIDs[netI])
    /\ upstreamCalled' = TRUE
    /\ \E answer \in NetworkAnswers(req.OrgID) :
         IF answer.err
           THEN /\ Fail
                /\ failedFetches' = failedFetches \cup {"networks"}
                /\ UNCHANGED <<org, targetNetwork>>
           ELSE LET found == FindNetwork(answer.val, networkIDs[netI])
                IN  /\ UNCHANGED failedFetches
                    /\ IF found.ok
                         THEN /\ org' = [ID |-> req.OrgID, Name |-> NoText]
                              /\ targetNetwork' = found.net
                              /\ pc' = "web_org_name"
                         ELSE Fail /\ UNCHANGED <<org, targetNetwork>>
    /\ UNCHANGED <<outcome, inputVars, libVars, orgs, orgI, selectedNetworks, networkIDs, netI,
                   compiled, resolvedHostname, netVars, jobVars, rowVars, resultVars,
                   hist, passHist, lastRow, calls>>

\* resolveDevices, fast path: GetOrganizations for the display name; its
\* error is ignored
WebFastOrgName ==
    /\ path = "web" /\ pc = "web_org_name"
    /\ upstreamCalled' = TRUE
    /\ \E answer \in OrganizationAnswers :
         IF answer.err
           THEN /\ failedFetches' = failedFetches \cup {"organizations"}
                /\ UNCHANGED org
           ELSE /\ UNCHANGED failedFetches
                /\ IF \E i \in 1..Len(answer.val) : answer.val[i].ID = org.ID
                     THEN org' = [org EXCEPT !.Name =
                                     answer.val[CHOOSE i \in 1..Len(answer.val) :
                                        /\ answer.val[i].ID = org.ID
                                        /\ \A j \in 1..(i - 1) :
                                               answer.val[j].ID # org.ID].Name]
                     ELSE UNCHANGED org
    /\ pc' = "web_matcher"
    /\ UNCHANGED <<outcome, inputVars, libVars, cfg, orgs, orgI, selectedNetworks, networkIDs,
                   targetNetwork, netI, compiled, resolvedHostname,
                   netVars, jobVars, rowVars, resultVars, hist, passHist, lastRow, calls>>

\* resolveDevices, slow path: GetOrganizations
WebSlowOrganizations ==
    /\ path = "web" /\ pc = "web_network" /\ netI <= Len(networkIDs)
    /\ req.OrgID = NoText
    /\ cfg' = WebConfig(networkIDs[netI])
    /\ upstreamCalled' = TRUE
    /\ \E answer \in OrganizationAnswers :
         IF answer.err
           THEN /\ Fail
                /\ failedFetches' = failedFetches \cup {"organizations"}
                /\ UNCHANGED <<orgs, orgI>>
         ELSE IF Len(answer.val) = 0
           THEN Fail /\ UNCHANGED <<failedFetches, orgs, orgI>>
         ELSE /\ orgs' = answer.val
              /\ orgI' = 1
              /\ pc' = "web_org_networks"
              /\ UNCHANGED failedFetches
    /\ UNCHANGED <<outcome, inputVars, libVars, org, selectedNetworks, networkIDs, targetNetwork,
                   netI, compiled, resolvedHostname, netVars, jobVars, rowVars,
                   resultVars, hist, passHist, lastRow, calls>>

\* resolveDevices, slow path: GetNetworks of one organization; an error
\* moves on to the next organization
WebSlowNetworks ==
    /\ path = "web" /\ pc = "web_org_networks" /\ orgI <= Len(orgs)
    /\ upstreamCalled' = TRUE
    /\ \E answer \in NetworkAnswers(orgs[orgI].ID) :
         IF answer.err
           THEN /\ failedFetches' = failedFetches \cup {"networks"}
                /\ orgI' = orgI + 1
                /\ UNCHANGED <<pc, org, orgs, targetNetwork>>
           ELSE LET found == FindNetwork(answer.val, cfg.NetworkName)
                IN  /\ UNCHANGED failedFetches
                    /\ IF found.ok
                         THEN /\ org' = orgs[orgI]
                              /\ targetNetwork' = found.net
                              /\ orgs' = <<>> /\ orgI' = 1
                              /\ pc' = "web_matcher"
                         ELSE /\ orgI' = orgI + 1
                              /\ UNCHANGED <<pc, org, orgs, targetNetwork>>
    /\ UNCHANGED <<outcome, inputVars, libVars, cfg, selectedNetworks, networkIDs, netI,
                   compiled, resolvedHostname, netVars, jobVars, rowVars, resultVars,
                   hist, passHist, lastRow, calls>>

\* resolveDevices, slow path: "network not found"
WebSlowNotFound ==
    /\ path = "web" /\ pc = "web_org_networks" /\ orgI > Len(orgs)
    /\ Fail
    /\ UNCHANGED <<outcome, inputVars, libVars, scopeVars, netVars, jobVars, rowVars, resultVars,
                   histVars>>

\* resolveDevices, MAC mode: macaddr.BuildMacMatcher(macAddr)
WebBuildMatcher ==
    /\ path = "web" /\ pc = "web_matcher" /\ req.IP = NoText
    /\ LET m == BuildMacMatcher(req.MAC)
       IN  IF m.ok
             THEN compiled' = m /\ pc' = "web_devices"
             ELSE Fail /\ UNCHANGED compiled
    /\ UNCHANGED <<outcome, inputVars, libVars, cfg, org, orgs, orgI, selectedNetworks, networkIDs,
                   targetNetwork, netI, resolvedHostname,
                   netVars, jobVars, rowVars, resultVars, histVars>>

\* What resolveDevices does with the answer of ResolveIPToMAC:
\* "resolvedHostname = hostname"
WebResolved(r, m) ==
    /\ resolution' = r
    /\ IF r.err THEN Fail /\ UNCHANGED <<compiled, resolvedHostname>>
       ELSE /\ resolvedHostname' = r.hostname
            /\ IF m.ok THEN compiled' = m /\ pc' = "web_devices"
                       ELSE Fail /\ UNCHANGED compiled

\* resolveDevices, IP resolution mode: client.ResolveIPToMAC(ctx,
\* targetOrg.ID, []meraki.Network{*targetNetwork}, ipAddr)
WebResolveIP ==
    /\ path = "web" /\ pc = "web_matcher" /\ req.IP # NoText
    /\ upstreamCalled' = TRUE
    /\ ipAsked' = [networks |-> <<targetNetwork>>, ip |-> req.IP]
    /\ \E answers \in AnswerTuples(<<targetNetwork>>) :
         /\ ipSeen' = answers
         /\ failedFetches' = IF answers[1].err
                                THEN failedFetches \cup {"networkClients"}
                                ELSE failedFetches
         /\ WebResolved(ResolveIPToMAC(<<targetNetwork>>, answers, req.IP),
                        BuildMacMatcher(ResolveIPToMAC(<<targetNetwork>>, answers,
                                                       req.IP).mac))
    /\ UNCHANGED <<outcome, inputVars, clientVars, macVars, overrideVars, callVars, hubVars,
                   cfg, org, orgs, orgI,
                   selectedNetworks, networkIDs, targetNetwork, netI,
                   netVars, jobVars, rowVars, resultVars, hist, passHist, lastRow, calls>>

\* resolveDevices: GetDevices(targetNetwork.ID) and FilterSwitches
WebGetDevices ==
    /\ path = "web" /\ pc = "web_devices"
    /\ upstreamCalled' = TRUE
    /\ \E answer \in DeviceAnswers(targetNetwork.ID) :
         IF answer.err
           THEN /\ Fail
                /\ failedFetches' = failedFetches \cup {"devices"}
                /\ UNCHANGED <<devices, switches>>
           ELSE /\ devices' = answer.val
                /\ switches' = FilterSwitches(answer.val)
                /\ pc' = "web_netclients"
                /\ UNCHANGED failedFetches
    /\ UNCHANGED <<outcome, inputVars, libVars, scopeVars, devI, networkClients, rowI,
                   serialArpCache, jobVars, rowVars, resultVars,
                   hist, passHist, lastRow, calls>>

\* processSwitchesForResolution: GetNetworkClients(network.ID)
WebGetNetworkClients ==
    /\ path = "web" /\ pc = "web_netclients"
    /\ upstreamCalled' = TRUE
    /\ \E answer \in NetworkClientAnswers(targetNetwork.ID) :
         IF answer.err
           THEN /\ Fail
                /\ failedFetches' = failedFetches \cup {"networkClients"}
                /\ UNCHANGED <<networkClients, rowI>>
           ELSE /\ networkClients' = answer.val
                /\ rowI' = 1
                /\ pc' = "web_client_rows"
                /\ UNCHANGED failedFetches
    /\ UNCHANGED <<outcome, inputVars, libVars, scopeVars, devices, switches, devI, serialArpCache,
                   jobVars, rowVars, resultVars, hist, passHist, lastRow, calls>>

\* One iteration of "for _, c := range networkClients" with its addResult
WebClientRow ==
    /\ path = "web" /\ pc = "web_client_rows" /\ rowI <= Len(networkClients)
    /\ LET c == networkClients[rowI]
           n == NormalizeExactMac(c.MAC)
           serial == TrimSpace(c.RecentDeviceSerial)
           dev == DeviceBySerial(switches, serial)
           switchName == firstNonEmpty(<<dev.Name, c.RecentDeviceName, serial>>)
           port == firstNonEmpty(<<c.SwitchportName, c.Switchport, c.Port, Unknown>>)
           rich == enrichPortInfo(serial, port, 0, NoText, SwitchPortAnswer(serial, port))
       IN  IF n.ok /\ matcher(compiled, n.val) /\ serial # NoText
             THEN WebAdd(ResultRow(org.Name, targetNetwork.Name, switchName, serial, port,
                                   FormatMacColon(n.val), c.IP, resolvedHostname,
                                   c.LastSeen, rich.vlan, rich.portMode), n.val)
             ELSE UNCHANGED <<results, resultsIndex, passHist>>
    /\ rowI' = rowI + 1
    /\ UNCHANGED <<pc, outcome, inputVars, libVars, scopeVars, devices, switches, devI,
                   networkClients, serialArpCache, jobVars, rowVars, allResults,
                   upstreamCalled, failedFetches, hist, lastRow, calls>>

\* End of the loop over networkClients: on to the loop over switches
WebClientRowsDone ==
    /\ path = "web" /\ pc = "web_client_rows" /\ rowI > Len(networkClients)
    /\ devI' = 1
    /\ rowI' = 1
    /\ pc' = "web_switch"
    /\ UNCHANGED <<outcome, inputVars, libVars, scopeVars, devices, switches, networkClients,
                   serialArpCache, jobVars, rowVars, resultVars, histVars>>

\* Head of "for _, dev := range switches": CreateMacTableLookup; an error
\* goes to fallbackClients
WebCreateMacTable ==
    /\ path = "web" /\ pc = "web_switch" /\ devI <= Len(switches)
    /\ LET serial == switches[devI].Serial
       IN  \E answer \in CreateAnswers :
             /\ hist' = [NoHist EXCEPT !.serial = serial,
                                       !.jobCreated = ~answer.err /\ answer.val # NoText]
             /\ passHist' = [passHist EXCEPT ![serial].macJobs = Count2(@)]
             /\ IF ~answer.err
                  THEN /\ macTableID' = answer.val
                       /\ attempt' = 0
                       /\ status' = NoText
                       /\ macEntries' = <<>>
                       /\ pc' = "job_sleep"
                  ELSE /\ macTableID' = NoText
                       /\ pc' = "web_fallback"
                       /\ UNCHANGED <<attempt, status, macEntries>>
    /\ UNCHANGED <<outcome, inputVars, libVars, scopeVars, netVars, foundInTable, clients, rowVars,
                   resultVars, upstreamCalled, failedFetches, lastRow, calls>>

\* fallbackClients: clients, err := client.GetDeviceClients(ctx, dev.Serial)
WebGetDeviceClients ==
    /\ path = "web" /\ pc = "web_fallback"
    /\ \E answer \in DeviceClientAnswers :
         IF answer.err
           THEN /\ failedFetches' = failedFetches \cup {"deviceClients"}
                /\ hist' = [AfterLoop(hist) EXCEPT !.fallback = @ + 1, !.processed = TRUE]
                /\ NextSwitch
           ELSE /\ clients' = answer.val
                /\ rowI' = 1
                /\ pc' = "web_device_rows"
                /\ hist' = [AfterLoop(hist) EXCEPT !.fallback = @ + 1]
                /\ UNCHANGED <<failedFetches, devI, macEntries, foundInTable>>
    /\ UNCHANGED <<outcome, inputVars, libVars, scopeVars, devices, switches, networkClients,
                   serialArpCache, macTableID, attempt, status,
                   rowVars, resultVars, upstreamCalled, passHist, lastRow, calls>>

\* One iteration of "for _, c := range clients" with its addResult
WebDeviceRow ==
    /\ path = "web" /\ pc = "web_device_rows" /\ rowI <= Len(clients)
    /\ LET c == clients[rowI]
           dev == switches[devI]
           n == NormalizeExactMac(c.MAC)
           port == firstNonEmpty(<<c.SwitchportName, c.Switchport, c.Port, Unknown>>)
           rich == enrichPortInfo(dev.Serial, port, 0, NoText,
                                  SwitchPortAnswer(dev.Serial, port))
       IN  IF n.ok /\ matcher(compiled, n.val)
             THEN WebAdd(ResultRow(org.Name, targetNetwork.Name,
                                   firstNonEmpty(<<dev.Name, dev.Serial>>), dev.Serial,
                                   port, FormatMacColon(n.val), NoText, resolvedHostname,
                                   c.LastSeen, rich.vlan, rich.portMode), n.val)
             ELSE UNCHANGED <<results, resultsIndex, passHist>>
    /\ rowI' = rowI + 1
    /\ UNCHANGED <<pc, outcome, inputVars, libVars, scopeVars, devices, switches, devI,
                   networkClients, serialArpCache, jobVars, rowVars, allResults,
                   upstreamCalled, failedFetches, hist, lastRow, calls>>

\* End of the loop over the device's clients
WebDeviceRowsDone ==
    /\ path = "web" /\ pc = "web_device_rows" /\ rowI > Len(clients)
    /\ NextSwitch
    /\ hist' = [hist EXCEPT !.processed = TRUE]
    /\ UNCHANGED <<outcome, inputVars, libVars, scopeVars, devices, switches, networkClients,
                   serialArpCache, macTableID, attempt, status, rowVars, resultVars,
                   upstreamCalled, failedFetches, passHist, lastRow, calls>>

\* handleResolve, after resolveDevices: the next network id; the locals of
\* resolveDevices are gone
NextNetworkID ==
    /\ netI' = netI + 1
    /\ pc' = "web_network"
    /\ org' = Org1 /\ orgs' = <<>> /\ orgI' = 1 /\ targetNetwork' = NoNetwork
    /\ compiled' = NoMatcher
    /\ results' = <<>> /\ resultsIndex' = {}
    /\ EndPass

\* handleResolve: "if err != nil { continue }"
WebSkipNetwork ==
    /\ path = "web" /\ pc = "web_failed"
    /\ NextNetworkID
    /\ UNCHANGED <<outcome, inputVars, libVars, cfg, selectedNetworks, networkIDs, resolvedHostname,
                   jobVars, rowVars, allResults,
                   upstreamCalled, failedFetches, lastRow, calls>>

\* processSwitchesForResolution returns its rows, and handleResolve appends
\* them: allResults = append(allResults, results...)
WebAppend ==
    /\ path = "web" /\ pc = "web_switch" /\ devI > Len(switches)
    /\ allResults' = allResults \o results
    /\ NextNetworkID
    /\ UNCHANGED <<outcome, inputVars, libVars, cfg, selectedNetworks, networkIDs, resolvedHostname,
                   jobVars, rowVars, upstreamCalled, failedFetches, lastRow, calls>>

\* handleResolve, after the loop: the response {"results": [...]}
WebRespond ==
    /\ path = "web" /\ pc = "web_network" /\ netI > Len(networkIDs)
    /\ outcome' = "rows"
    /\ pc' = "done"
    /\ UNCHANGED <<inputVars, libVars, scopeVars, netVars, jobVars, rowVars, resultVars, histVars>>

NextWeb ==
    \/ WebValidate
    \/ WebFastNetworks \/ WebFastOrgName
    \/ WebSlowOrganizations \/ WebSlowNetworks \/ WebSlowNotFound
    \/ WebBuildMatcher \/ WebResolveIP \/ WebGetDevices \/ WebGetNetworkClients
    \/ WebClientRow \/ WebClientRowsDone
    \/ WebCreateMacTable
    \/ WebGetDeviceClients \/ WebDeviceRow \/ WebDeviceRowsDone
    \/ WebSkipNetwork \/ WebAppend \/ WebRespond

(***************************************************************************)
(* addResult on its own: any sequence of calls on one index                *)
(***************************************************************************)
MaxCalls == 3

\* Rows that share a device, a port and an address or differ in them; a
\* serial and a port may contain the separator of the key
DedupRows ==
    {ResultRow(Org1.Name, Net1.Name, NoText, serial, port, MacA, seen[2], NoText,
               seen[1], 0, NoText) :
        serial \in {Serial1, SerialBar},
        port \in {<<"1">>, <<"1","|","1">>},
        seen \in {<<T1, NoText>>, <<T2, IpA>>}}

InitDedup ==
    /\ path = "dedup" /\ pc = "dedup"
    /\ world = [switchPort |-> Err, hostname |-> NoText]
    /\ cfg = NoCfg /\ req = NoReq
    /\ Idle /\ OverrideIdle /\ IpIdle /\ CallIdle /\ HubIdle /\ ClientIdle /\ MacIdle

\* One call addResult(resultsIndex, &results, row)
AddResult ==
    /\ path = "dedup" /\ calls < MaxCalls
    /\ \E row \in DedupRows :
         LET added == addResult(resultsIndex, results, row)
         IN  /\ results' = added.rows
             /\ resultsIndex' = added.index
             /\ lastRow' = row
    /\ calls' = calls + 1
    /\ UNCHANGED <<pc, outcome, inputVars, libVars, scopeVars, netVars, jobVars, rowVars,
                   allResults, upstreamCalled, failedFetches, hist, passHist>>

(***************************************************************************)
(* pkg/meraki: NewClient, doRequest, getAllPages and the wrappers on it    *)
(***************************************************************************)
DefaultMaxRetries == 6

\* Largest positive retry count handed to NewClient
MaxRetryArg == 2

\* Most pages one getAllPages call is followed through
MaxPages == 4

RetryArgs == (-1)..MaxRetryArg

\* NewClient: maxRetries <= 0 is replaced by the default
NewClient(retries) ==
    [maxRetries |-> IF retries <= 0 THEN DefaultMaxRetries ELSE retries]

U1 == <<"u","1">>

U2 == <<"u","2">>

U3 == <<"u","3">>

Rel(name) == <<"r","e","l","=","\"">> \o name \o <<"\"">>

RelNext == Rel(<<"n","e","x","t">>)

RelPrev == Rel(<<"p","r","e","v">>)

\* One part of a Link header as the upstream writes it: <url>; rel="name"
LinkPart(url, rel) == <<"<">> \o url \o <<">", ";", " ">> \o rel

\* The Link header of a page: the previous page, then the next one
LinkHeader(page) ==
    LET prev == IF page.prev = NoText THEN NoText ELSE LinkPart(page.prev, RelPrev)
        next == IF page.next = NoText THEN NoText ELSE LinkPart(page.next, RelNext)
    IN  IF prev = NoText THEN next
        ELSE IF next = NoText THEN prev
        ELSE prev \o <<",", " ">> \o next

\* strings.Split(s, sep) for a one-character separator
RECURSIVE Split(_, _)
Split(s, sep) ==
    IF \A i \in 1..Len(s) : s[i] # sep THEN <<s>>
    ELSE LET i == CHOOSE k \in 1..Len(s) : s[k] = sep /\ \A j \in 1..(k - 1) : s[j] # sep
         IN  <<SubSeq(s, 1, i - 1)>> \o Split(SubSeq(s, i + 1, Len(s)), sep)

\* strings.Index(s, c) for a one-character c: 0-based offset, or -1
Index(s, c) ==
    IF \E i \in 1..Len(s) : s[i] = c
      THEN (CHOOSE k \in 1..Len(s) : s[k] = c /\ \A j \in 1..(k - 1) : s[j] # c) - 1
      ELSE -1

\* The loop of parseLinkNext over the parts of the header
RECURSIVE FirstNext(_)
FirstNext(parts) ==
    IF parts = <<>> THEN NoText
    ELSE LET section == TrimSpace(Head(parts))
             start == Index(section, "<")
             end == Index(section, ">")
         IN  IF ~Contains(section, RelNext) \/ start = -1 \/ end = -1 \/ end <= start + 1
               THEN FirstNext(Tail(parts))
               ELSE SubSeq(section, start + 2, end)

\* A parseLinkNext that finds no continuation
parseLinkNone(linkHeader) == NoText

\* parseLinkNext: the URL of the first part that says rel="next", or ""
parseLinkNext(linkHeader) ==
    IF linkHeader = NoText THEN NoText ELSE FirstNext(Split(linkHeader, ","))

\* A record of a page as json.RawMessage: decodes says whether the wrapper's
\* json.Unmarshal into its struct succeeds
Raw(id, decodes) == [id |-> id, decodes |-> decodes]

\* A page of the upstream: array says whether the body is a JSON array
Page(array, records, prev, next) ==
    [array |-> array, records |-> records, prev |-> prev, next |-> next]

NoPage == Page(FALSE, <<>>, NoText, NoText)

URLs == {U1, U2, U3}

\* The upstreams: one page; one empty page; three pages; a second page that is
\* not an array; and two pages that name each other as next
Upstreams ==
    { [u \in URLs |-> IF u = U1 THEN Page(TRUE, <<Raw("r1", TRUE)>>, NoText, NoText)
                      ELSE NoPage],
      [u \in URLs |-> IF u = U1 THEN Page(TRUE, <<>>, NoText, NoText) ELSE NoPage],
      [u \in URLs |->
          IF u = U1 THEN Page(TRUE, <<Raw("r1", TRUE), Raw("r2", TRUE)>>, NoText, U2)
          ELSE IF u = U2 THEN Page(TRUE, <<Raw("r2", TRUE), Raw("r3", FALSE)>>, U1, U3)
          ELSE Page(TRUE, <<Raw("r4", TRUE)>>, U2, NoText)],
      [u \in URLs |-> IF u = U1 THEN Page(TRUE, <<Raw("r1", TRUE)>>, NoText, U2)
                      ELSE IF u = U2 THEN Page(FALSE, <<>>, U1, NoText)
                      ELSE NoPage],
      [u \in URLs |-> IF u = U1 THEN Page(TRUE, <<Raw("r1", TRUE)>>, U2, U2)
                      ELSE IF u = U2 THEN Page(TRUE, <<Raw("r2", TRUE)>>, U1, U1)
                      ELSE NoPage] }

\* Retry-After values of a 429 answer: none, seconds, not a number
RetryAfters == {NoText, <<"2">>, <<"s","o","o","n">>}

\* Bodies of an error answer
ErrorBodies == {NoText, <<" ","o","o","p","s","\n">>}

ErrorStatuses == {404, 500}

DigitValue == [c \in Digits |->
                 CHOOSE n \in 0..9 : <<"0","1","2","3","4","5","6","7","8","9">>[n + 1] = c]

\* time.ParseDuration(retryAfter + "s") for whole seconds: [ok, seconds]
RECURSIVE DecimalValue(_, _)
DecimalValue(s, acc) ==
    IF s = <<>> THEN acc ELSE DecimalValue(Tail(s), 10 * acc + DigitValue[Head(s)])

ParseDuration(s) ==
    IF Len(s) >= 2 /\ s[Len(s)] = "s" /\ \A i \in 1..(Len(s) - 1) : s[i] \in Digits
      THEN [ok |-> TRUE, seconds |-> DecimalValue(SubSeq(s, 1, Len(s) - 1), 0)]
      ELSE [ok |-> FALSE, seconds |-> 0]

\* A client from NewClient, and getAllPages up to its first doRequest call
InitClient ==
    /\ path = "client" /\ pc = "client"
    /\ world = [switchPort |-> Err, hostname |-> NoText]
    /\ cfg = NoCfg /\ req = NoReq
    /\ Idle /\ OverrideIdle /\ IpIdle /\ CallIdle /\ HubIdle /\ MacIdle
    /\ \E n \in RetryArgs :
         /\ maxRetries = NewClient(n).maxRetries
         /\ httpHist = [NoHttpHist EXCEPT !.arg = n]
    /\ pages \in Upstreams
    /\ fullURL = U1 /\ all = <<>>
    /\ httpAttempt = 0 /\ response = NoResponse /\ got = NoGot
    /\ httpPc = "doRequest"

\* A loop that runs once more: attempt <= m.maxRetries
MayAttemptOnceMore(a, retries) == a <= retries

\* doRequest: for attempt := 0; attempt < m.maxRetries; attempt++
MayAttempt(a, retries) == a < retries

\* A doRequest that also retries the answers of a failing server
IsThrottledOrServerError(st) == st = 429 \/ st >= 500

\* doRequest: resp.StatusCode == http.StatusTooManyRequests
IsThrottled(st) == st = 429

\* The wrappers (GetOrganizations, GetNetworks, ...): an error of getAllPages
\* is returned; a record that does not decode is left out
Wrapper(err, error, raws) ==
    IF err THEN [err |-> TRUE, error |-> error, val |-> <<>>]
    ELSE [err |-> FALSE, error |-> NoError,
          val |-> LET kept == SelectSeq(raws, LAMBDA r : r.decodes)
                  IN  [i \in 1..Len(kept) |-> kept[i].id]]

\* getAllPages returns (nil, err), and so does the wrapper
ReturnError(error) ==
    /\ got' = [err |-> TRUE, error |-> error, val |-> <<>>,
               wrapper |-> Wrapper(TRUE, error, <<>>)]
    /\ httpPc' = "returned"

\* getAllPages returns (all, nil)
ReturnAll(raws) ==
    /\ got' = [err |-> FALSE, error |-> NoError, val |-> raws,
               wrapper |-> Wrapper(FALSE, NoError, raws)]
    /\ httpPc' = "returned"

Sending == path = "client" /\ httpPc = "doRequest" /\ MayAttempt(httpAttempt, maxRetries)

\* m.client.Do returns an error
HttpTransportError ==
    /\ Sending
    /\ response' = [NoResponse EXCEPT !.transport = TRUE]
    /\ httpHist' = [httpHist EXCEPT !.sent = @ + 1, !.only429 = FALSE]
    /\ ReturnError([NoError EXCEPT !.kind = "transport"])
    /\ UNCHANGED <<maxRetries, pages, fullURL, all, httpAttempt>>
    /\ UNCHANGED <<pc, outcome, inputVars, scopeVars, netVars, jobVars, rowVars,
                   resultVars, histVars, macVars, overrideVars, ipVars, callVars, hubVars>>

\* A 429 answer: sleep for Retry-After seconds, else 1 + attempt seconds, and
\* go round the loop
HttpThrottled ==
    /\ Sending
    /\ \E st \in {429} \cup ErrorStatuses, retryAfter \in RetryAfters :
         LET parsed == ParseDuration(retryAfter \o <<"s">>)
             seconds == IF retryAfter # NoText /\ parsed.ok THEN parsed.seconds
                        ELSE 1 + httpAttempt
         IN  /\ IsThrottled(st)
             /\ response' = [NoResponse EXCEPT !.status = st, !.retryAfter = retryAfter]
             /\ httpHist' = [httpHist EXCEPT !.sent = @ + 1, !.sleeps = @ + 1,
                                             !.sleptOn = @ \cup {st},
                                             !.lastSleep = seconds]
    /\ httpAttempt' = httpAttempt + 1
    /\ UNCHANGED <<maxRetries, pages, fullURL, all, got, httpPc>>
    /\ UNCHANGED <<pc, outcome, inputVars, scopeVars, netVars, jobVars, rowVars,
                   resultVars, histVars, macVars, overrideVars, ipVars, callVars, hubVars>>

\* Any other answer with a status of 300 or more
HttpStatusError ==
    /\ Sending
    /\ \E st \in {429} \cup ErrorStatuses, body \in ErrorBodies :
         /\ ~IsThrottled(st) /\ st >= 300
         /\ response' = [NoResponse EXCEPT !.status = st, !.body = body]
         /\ ReturnError([kind |-> "status", code |-> st, body |-> TrimSpace(body)])
    /\ httpHist' = [httpHist EXCEPT !.sent = @ + 1, !.only429 = FALSE]
    /\ UNCHANGED <<maxRetries, pages, fullURL, all, httpAttempt>>
    /\ UNCHANGED <<pc, outcome, inputVars, scopeVars, netVars, jobVars, rowVars,
                   resultVars, histVars, macVars, overrideVars, ipVars, callVars, hubVars>>

\* A 200 answer: doRequest returns the body and parseLinkNext of the Link
\* header; getAllPages decodes the page, appends it and goes on to the next
\* URL or returns
HttpOK ==
    /\ Sending
    /\ fullURL \in DOMAIN pages
    /\ Len(httpHist.arrived) < MaxPages
    /\ LET page == pages[fullURL]
           link == LinkHeader(page)
           next == parseLinkNext(link)
           arrived == [httpHist EXCEPT !.arrived = Append(@, fullURL),
                                       !.only429 = FALSE]
       IN  /\ response' = [NoResponse EXCEPT !.status = 200, !.link = link]
           /\ IF ~page.array
                THEN /\ ReturnError([NoError EXCEPT !.kind = "decode"])
                     /\ httpHist' = [arrived EXCEPT !.sent = @ + 1]
                     /\ UNCHANGED <<fullURL, all, httpAttempt>>
              ELSE IF next = NoText
                THEN /\ ReturnAll(all \o page.records)
                     /\ all' = all \o page.records
                     /\ httpHist' = [arrived EXCEPT !.sent = @ + 1]
                     /\ UNCHANGED <<fullURL, httpAttempt>>
              ELSE /\ all' = all \o page.records
                   /\ fullURL' = next
                   /\ httpAttempt' = 0
                   /\ httpHist' = [arrived EXCEPT !.sent = 0, !.sleeps = 0,
                                                  !.only429 = TRUE, !.sleptOn = {},
                                                  !.lastSleep = 0]
                   /\ UNCHANGED <<got, httpPc>>
    /\ UNCHANGED <<maxRetries, pages>>
    /\ UNCHANGED <<pc, outcome, inputVars, scopeVars, netVars, jobVars, rowVars,
                   resultVars, histVars, macVars, overrideVars, ipVars, callVars, hubVars>>

\* The loop of doRequest ends: "meraki API request failed after retries"
HttpBudgetSpent ==
    /\ path = "client" /\ httpPc = "doRequest"
    /\ ~MayAttempt(httpAttempt, maxRetries)
    /\ ReturnError([NoError EXCEPT !.kind = "retries"])
    /\ httpHist' = [httpHist EXCEPT !.gaveUp = TRUE]
    /\ UNCHANGED <<maxRetries, pages, fullURL, all, httpAttempt, response>>
    /\ UNCHANGED <<pc, outcome, inputVars, scopeVars, netVars, jobVars, rowVars,
                   resultVars, histVars, macVars, overrideVars, ipVars, callVars, hubVars>>

NextClient ==
    \/ HttpTransportError \/ HttpThrottled \/ HttpStatusError \/ HttpOK
    \/ HttpBudgetSpent

\* Every request is answered and every sleep ends
SpecClient == InitClient /\ [][NextClient]_vars /\ WF_vars(NextClient)

(***************************************************************************)
(* pkg/macaddr on its own: one text compiled and matched, or normalized,   *)
(* formatted and normalized again                                          *)
(***************************************************************************)
Prefix10 == <<"0","0","1","1","2","2","3","3","4","4">>

RECURSIVE Flatten(_)
Flatten(parts) == IF parts = <<>> THEN <<>> ELSE Head(parts) \o Flatten(Tail(parts))

\* Most tokens written around the literal digits of a generated pattern
MaxTail == 2

Literals == <<"0","0","1","1","2","2","3","3","4","4","5","5","6">>

Star == <<"*">>

Colon == <<":">>

Range14 == <<"[","1","-","4","]">>

Range0F == <<"[","0","-","F","]">>

EmptyBracket == <<"[","]">>

BracketG == <<"[","G","]">>

\* A bracket around U+0142
BracketWide == <<"[">> \o Utf8["U+0142"] \o <<"]">>

LetterG == <<"G">>

OpenBracket == <<"[","1">>

Tokens == {Star, Colon, Range14, EmptyBracket, BracketG, BracketWide, LetterG, OpenBracket}

Closing == {Range14, Range0F, EmptyBracket, BracketG, BracketWide}

TokenSeqs == UNION {[1..n -> Tokens] : n \in 0..MaxTail}

\* An opened bracket is closed by no later token
StaysOpen(parts) ==
    \A i \in 1..Len(parts) :
        parts[i] = OpenBracket => \A k \in (i + 1)..Len(parts) : parts[k] \notin Closing

\* Patterns written from tokens: k literal digits with tokens before and after
TokenPatterns ==
    {parts \in UNION {{SubSeq(t, 1, n) \o (IF k = 0 THEN <<>> ELSE <<SubSeq(Literals, 1, k)>>)
                         \o SubSeq(t, n + 1, Len(t)) :
                           n \in 0..Len(t), k \in 0..Len(Literals)} : t \in TokenSeqs} :
        StaysOpen(parts)}

\* Patterns written byte by byte with ':' between: each byte is two hex digits
\* or '*'
BytePatterns ==
    {<<b1, Colon, <<"1","1">>, Colon, <<"2","2">>, Colon, <<"3","3">>, Colon, b5, Colon, b6>> :
        b1 \in {<<"0","0">>, Star}, b5 \in {<<"4","4">>, Star}, b6 \in {<<"5","A">>, Star}}

\* The bracket patterns of the README and of the tests
PatBracket == <<Prefix10, Range14, Range0F>>

PatBracketSep ==
    <<<<"0","0">>, Colon, <<"1","1">>, Colon, <<"2","2">>, Colon, <<"3","3">>, Colon,
      <<"4","4">>, Colon, Range14, <<"[","0","-","f","]">>>>

\* U+0141 six times (12 bytes), U+4E30 four times (12 bytes), U+0141 twelve
\* times, and ten digits with U+0142
WideL6 == Flatten([i \in 1..6 |-> Utf8["U+0141"]])

WideCJK4 == Flatten([i \in 1..4 |-> Utf8["U+4E30"]])

WideL12 == Flatten([i \in 1..12 |-> Utf8["U+0141"]])

WideMixed == Prefix10 \o Utf8["U+0142"]

\* Addresses and other texts
Texts ==
    { MacA, MacC, NoText, <<" ">>, <<" ">> \o MacA,
      <<"0","8","f","1",".","b","3","6","f",".","9","c","2","5">>,
      <<"0","0","-","1","1","-","2","2","-","3","3","-","4","4","-","5","a">>,
      Prefix10 \o <<"A","B">>, Prefix10, Prefix10 \o <<"5","a","0">>,
      Prefix10 \o <<"5","g">>, Prefix10 \o <<"5">>  \o <<"g","g">>,
      WideL6, WideCJK4, WideL12, WideMixed }

MacOrigins ==
    {[kind |-> "tokens", parts |-> p] : p \in TokenPatterns}
      \cup {[kind |-> "bytes", parts |-> p] : p \in BytePatterns}
      \cup {[kind |-> "brackets", parts |-> p] : p \in {PatBracket, PatBracketSep}}
      \cup {[kind |-> "text", parts |-> <<t>>] : t \in Texts}

TailChars == {"0","1","2","4","5","a","A","f","F","g"}

\* Addresses handed to a predicate: every pair of last digits after
\* 0011223344, and other first and fifth bytes with a few last bytes
Subjects ==
    {Prefix10 \o <<a, b>> : a \in TailChars, b \in TailChars}
      \cup {b1 \o <<"1","1","2","2","3","3">> \o b5 \o b6 :
               b1 \in {<<"0","0">>, <<"0","a">>}, b5 \in {<<"4","4">>, <<"4","5">>},
               b6 \in {<<"5","a">>, <<"0","0">>, <<"5","g">>}}
      \cup {MacA, MacC, NoText, Prefix10, Prefix10 \o <<"5","a","0">>,
            WideL6, WideCJK4, WideMixed}

InitMac ==
    /\ path = "macaddr" /\ pc = "macaddr"
    /\ world = [switchPort |-> Err, hostname |-> NoText]
    /\ cfg = NoCfg /\ req = NoReq
    /\ Idle /\ OverrideIdle /\ IpIdle /\ CallIdle /\ HubIdle /\ ClientIdle
    /\ origin \in MacOrigins
    /\ input = Flatten(origin.parts)
    /\ built = NoMatcher /\ subject = NoText /\ accepted = FALSE
    /\ normalized = NoNormal /\ display = NoText /\ again = NoNormal
    /\ macPc = "input"

\* matcher, normalized, isWildcard, err = BuildMacMatcher(input)
MacCompile ==
    /\ path = "macaddr" /\ macPc = "input"
    /\ built' = BuildMacMatcher(input)
    /\ macPc' = "compiled"
    /\ UNCHANGED <<origin, input, subject, accepted, normalized, display, again>>
    /\ UNCHANGED <<pc, outcome, inputVars, scopeVars, netVars, jobVars, rowVars,
                   resultVars, histVars, clientVars, overrideVars, ipVars, callVars, hubVars>>

\* matcher(mac) for an address
MacMatch ==
    /\ path = "macaddr" /\ macPc = "compiled" /\ built.ok
    /\ \E mac \in Subjects :
         /\ subject' = mac
         /\ accepted' = matcher(built, mac)
    /\ macPc' = "matched"
    /\ UNCHANGED <<origin, input, built, normalized, display, again>>
    /\ UNCHANGED <<pc, outcome, inputVars, scopeVars, netVars, jobVars, rowVars,
                   resultVars, histVars, clientVars, overrideVars, ipVars, callVars, hubVars>>

\* NormalizeExactMac(input)
MacNormalize ==
    /\ path = "macaddr" /\ macPc = "input"
    /\ normalized' = NormalizeExactMac(input)
    /\ macPc' = "normalized"
    /\ UNCHANGED <<origin, input, built, subject, accepted, display, again>>
    /\ UNCHANGED <<pc, outcome, inputVars, scopeVars, netVars, jobVars, rowVars,
                   resultVars, histVars, clientVars, overrideVars, ipVars, callVars, hubVars>>

\* FormatMacColon of the normalized address
MacFormat ==
    /\ path = "macaddr" /\ macPc = "normalized" /\ normalized.ok
    /\ display' = FormatMacColon(normalized.val)
    /\ macPc' = "formatted"
    /\ UNCHANGED <<origin, input, built, subject, accepted, normalized, again>>
    /\ UNCHANGED <<pc, outcome, inputVars, scopeVars, netVars, jobVars, rowVars,
                   resultVars, histVars, clientVars, overrideVars, ipVars, callVars, hubVars>>

\* NormalizeExactMac of the display form
MacRenormalize ==
    /\ path = "macaddr" /\ macPc = "formatted"
    /\ again' = NormalizeExactMac(display)
    /\ macPc' = "renormalized"
    /\ UNCHANGED <<origin, input, built, subject, accepted, normalized, display>>
    /\ UNCHANGED <<pc, outcome, inputVars, scopeVars, netVars, jobVars, rowVars,
                   resultVars, histVars, clientVars, overrideVars, ipVars, callVars, hubVars>>

\* The predicate BuildMacMatcher(x) returned, applied to
\* FormatMacColon(NormalizeExactMac(x)), for an x NormalizeExactMac accepts
MacRoundTrip ==
    /\ path = "macaddr" /\ macPc = "compiled" /\ built.ok
    /\ NormalizeExactMac(input).ok
    /\ normalized' = NormalizeExactMac(input)
    /\ display' = FormatMacColon(normalized'.val)
    /\ subject' = display'
    /\ accepted' = matcher(built, display')
    /\ macPc' = "roundtrip"
    /\ UNCHANGED <<origin, input, built, again>>
    /\ UNCHANGED <<pc, outcome, inputVars, scopeVars, netVars, jobVars, rowVars,
                   resultVars, histVars, clientVars, overrideVars, ipVars, callVars, hubVars>>

\* What BuildMacRegex returned, kept where BuildMacMatcher keeps it
RegexBuilt(r) ==
    IF ~r.ok THEN [NoneBuilt EXCEPT !.err = r.err]
    ELSE [NoneBuilt EXCEPT !.ok = TRUE, !.isWildcard = TRUE, !.re = r.re]

\* Texts handed to re.MatchString: those of TestBuildMacRegex, texts of 11
\* and 13 characters, one ending in a line feed, and texts in the other case
\* or with a character between '9' and 'A'
RegexSubjects ==
    {Prefix10 \o t : t \in {<<"1","0">>, <<"2","A">>, <<"4","F">>, <<"5","0">>, <<"0","A">>,
                             <<"1">>, <<"1","0","0">>, <<"1","0","\n">>, <<"2","a">>,
                             <<"1",":">>, <<>>}}
      \cup {NoText, <<"0">> \o Prefix10 \o <<"1","0">>, WideL12,
            <<"0","0","1","1","2","2","3","3","4","5","0","0">>}

\* re, err := BuildMacRegex(input)
MacBuildRegex ==
    /\ path = "macaddr" /\ macPc = "input"
    /\ built' = RegexBuilt(BuildMacRegex(input))
    /\ macPc' = "regex"
    /\ UNCHANGED <<origin, input, subject, accepted, normalized, display, again>>
    /\ UNCHANGED <<pc, outcome, inputVars, scopeVars, netVars, jobVars, rowVars,
                   resultVars, histVars, clientVars, overrideVars, ipVars, callVars, hubVars>>

\* re.MatchString(m)
MacRegexMatch ==
    /\ path = "macaddr" /\ macPc = "regex" /\ built.ok
    /\ \E m \in RegexSubjects :
         /\ subject' = m
         /\ accepted' = MatchString(built.re, m)
    /\ macPc' = "regexMatched"
    /\ UNCHANGED <<origin, input, built, normalized, display, again>>
    /\ UNCHANGED <<pc, outcome, inputVars, scopeVars, netVars, jobVars, rowVars,
                   resultVars, histVars, clientVars, overrideVars, ipVars, callVars, hubVars>>

NextMac ==
    \/ MacCompile \/ MacMatch \/ MacNormalize \/ MacFormat \/ MacRenormalize
    \/ MacRoundTrip \/ MacBuildRegex \/ MacRegexMatch

SpecMac == InitMac /\ [][NextMac]_vars

(***************************************************************************)
(* pkg/meraki host overrides: SetHostOverrides and LookupHostOverride.     *)
(* The table is hostOverrides[scope][ip] = hostname with scope "org/net";  *)
(* names are plain strings here.                                           *)
(***************************************************************************)
\* Most entries of a generated rule list
MaxRules == 2

Wildcard == "*"

\* The key of a scope in the table
ScopeKey(orgName, netName) == orgName \o "/" \o netName

Entry(o, n, i, h) == [org |-> o, net |-> n, ip |-> i, hostname |-> h]

OrDefault(name) == IF name = "" THEN Wildcard ELSE name

HasRule(rules, scope, ip) == \E r \in rules : r.scope = scope /\ r.ip = ip

RuleFor(rules, scope, ip) == CHOOSE r \in rules : r.scope = scope /\ r.ip = ip

\* A later entry for a scope and an address replaces the stored one
StoreRuleLast(rules, scope, e) ==
    {r \in rules : ~(r.scope = scope /\ r.ip = e.ip)}
        \cup {[scope |-> scope, ip |-> e.ip, hostname |-> e.hostname]}

\* One entry of the list: dropped without ip or hostname; the first entry for
\* a scope and an address stays
StoreRule(rules, scope, e) ==
    IF HasRule(rules, scope, e.ip) THEN rules
    ELSE rules \cup {[scope |-> scope, ip |-> e.ip, hostname |-> e.hostname]}

RECURSIVE StoreRules(_, _, _)
StoreRules(entries, i, rules) ==
    IF i > Len(entries) THEN rules
    ELSE IF entries[i].ip = "" \/ entries[i].hostname = ""
      THEN StoreRules(entries, i + 1, rules)
    ELSE StoreRules(entries, i + 1,
                    StoreRule(rules,
                              ScopeKey(OrDefault(entries[i].org), OrDefault(entries[i].net)),
                              entries[i]))

TableOf(rules) == IF rules = {} THEN NilTable ELSE [nil |-> FALSE, rules |-> rules]

\* A load that adds to the table it finds
SetHostOverridesMerging(old, in) ==
    IF in.kind # "list" THEN old
    ELSE TableOf(StoreRules(in.entries, 1, old.rules))

\* SetHostOverrides(input) with old the table it replaces
SetHostOverrides(old, in) ==
    IF in.kind # "list" THEN NilTable
    ELSE TableOf(StoreRules(in.entries, 1, {}))

FirstHit(table, keys, ip) ==
    IF \A k \in 1..Len(keys) : ~HasRule(table.rules, keys[k], ip) THEN ""
    ELSE RuleFor(table.rules,
                 keys[CHOOSE k \in 1..Len(keys) :
                        /\ HasRule(table.rules, keys[k], ip)
                        /\ \A l \in 1..(k - 1) : ~HasRule(table.rules, keys[l], ip)],
                 ip).hostname

\* A lookup that tries the wildcard org before the wildcard network
LookupNetFirst(table, ip, orgName, netName) ==
    IF table.nil THEN ""
    ELSE FirstHit(table, <<ScopeKey(orgName, netName), ScopeKey(Wildcard, netName),
                           ScopeKey(orgName, Wildcard), ScopeKey(Wildcard, Wildcard)>>, ip)

\* LookupHostOverride(ip, orgName, netName)
LookupHostOverride(table, ip, orgName, netName) ==
    IF table.nil THEN ""
    ELSE FirstHit(table, <<ScopeKey(orgName, netName), ScopeKey(orgName, Wildcard),
                           ScopeKey(Wildcard, netName), ScopeKey(Wildcard, Wildcard)>>, ip)

Ip1 == "192.168.1.1"

Ip2 == "10.0.0.1"

\* The rule list of setupOverrides
SetupList ==
    << Entry("Acme", "HQ", Ip1, "exact"), Entry("Acme", "*", Ip1, "org-wildcard"),
       Entry("*", "HQ", Ip1, "net-wildcard"), Entry("*", "*", Ip1, "global"),
       Entry("Acme", "*", Ip2, "core") >>

\* Entries of generated lists: org and net named or omitted, ip or hostname
\* present or missing
Entries ==
    {Entry(o, n, p[1], p[2]) :
        o \in {"", "Acme", "Other"}, n \in {"", "HQ"},
        p \in {<<Ip1, "a">>, <<Ip1, "b">>, <<"", "a">>, <<Ip1, "">>}}

RuleLists == UNION {[1..n -> Entries] : n \in 0..MaxRules}

OverrideInputs ==
    {[kind |-> "empty", entries |-> <<>>], [kind |-> "invalid", entries |-> <<>>]}
      \cup {[kind |-> "list", entries |-> l] :
              l \in RuleLists \cup {SetupList, SubSeq(SetupList, 2, 5),
                                    SubSeq(SetupList, 3, 5), SubSeq(SetupList, 4, 5)}}

\* Loads that came before
EarlierInputs ==
    {[kind |-> "empty", entries |-> <<>>],
     [kind |-> "list", entries |-> SetupList],
     [kind |-> "list", entries |-> <<Entry("Other", "HQ", Ip1, "old")>>],
     [kind |-> "list", entries |-> <<Entry("", "", Ip2, "old")>>]}

Queries ==
    {[ip |-> i, org |-> o, net |-> n] :
        i \in {Ip1, Ip2}, o \in {"Acme", "Other"}, n \in {"HQ", "Branch"}}

InitOverride ==
    /\ path = "override" /\ pc = "override"
    /\ world = [switchPort |-> Err, hostname |-> NoText]
    /\ cfg = NoCfg /\ req = NoReq
    /\ Idle /\ IpIdle /\ CallIdle /\ HubIdle /\ ClientIdle /\ MacIdle
    /\ earlier \in EarlierInputs
    /\ hostOverrides = SetHostOverrides(NilTable, earlier)
    /\ loaded = NoInput /\ query = NoQuery /\ hostname = "" /\ ovPc = "start"

\* SetHostOverrides(input)
OvLoad ==
    /\ path = "override" /\ ovPc = "start"
    /\ \E in \in OverrideInputs :
         /\ hostOverrides' = SetHostOverrides(hostOverrides, in)
         /\ loaded' = in
    /\ ovPc' = "loaded"
    /\ UNCHANGED <<earlier, query, hostname>>
    /\ UNCHANGED <<pc, outcome, inputVars, scopeVars, netVars, jobVars, rowVars,
                   resultVars, histVars, clientVars, macVars, ipVars, callVars, hubVars>>

\* LookupHostOverride(ip, orgName, netName)
OvLookup ==
    /\ path = "override" /\ ovPc = "loaded"
    /\ \E q \in Queries :
         /\ query' = q
         /\ hostname' = LookupHostOverride(hostOverrides, q.ip, q.org, q.net)
    /\ ovPc' = "looked"
    /\ UNCHANGED <<hostOverrides, earlier, loaded>>
    /\ UNCHANGED <<pc, outcome, inputVars, scopeVars, netVars, jobVars, rowVars,
                   resultVars, histVars, clientVars, macVars, ipVars, callVars, hubVars>>

NextOverride == OvLoad \/ OvLookup

SpecOverride == InitOverride /\ [][NextOverride]_vars

(***************************************************************************)
(* ResolveIPToMAC on its own                                               *)
(***************************************************************************)
\* Most client records in one generated answer
MaxClients == 2

ResolveClients == {ClientNotes, ClientUuid, ClientPlain, ClientLonger, ClientNoIP}

ClientLists == UNION {[1..n -> ResolveClients] : n \in 0..MaxClients}

ClientAnswers == {Err} \cup {Ok(l) : l \in ClientLists}

InitResolve ==
    /\ path = "resolve" /\ pc = "resolve"
    /\ world \in Worlds
    /\ cfg = NoCfg /\ req = NoReq
    /\ Idle /\ OverrideIdle /\ CallIdle /\ HubIdle /\ ClientIdle /\ MacIdle
    /\ \E networks \in {<<Net1>>, <<Net1, Net2>>}, ip \in {IpA, IpB} :
         /\ ipAsked = [networks |-> networks, ip |-> ip]
         /\ ipSeen \in [1..Len(networks) -> ClientAnswers]
    /\ resolution = NoResolution

\* mac, networkID, hostname, err := c.ResolveIPToMAC(ctx, orgID, networks, ip)
Resolve ==
    /\ path = "resolve" /\ ~resolution.done
    /\ resolution' = ResolveIPToMAC(ipAsked.networks, ipSeen, ipAsked.ip)
    /\ UNCHANGED <<ipAsked, ipSeen>>
    /\ UNCHANGED <<pc, outcome, inputVars, scopeVars, netVars, jobVars, rowVars,
                   resultVars, histVars, clientVars, macVars, overrideVars, callVars, hubVars, hubVars>>

SpecResolve == InitResolve /\ [][Resolve]_vars

(***************************************************************************)
(* pkg/filters and selectNetworks, one call                                *)
(***************************************************************************)
\* Most devices or networks handed to one call
MaxGiven == 2

Named2(serial, name, model, productType) ==
    [Serial |-> serial, Name |-> name, Model |-> model, ProductType |-> productType]

\* Devices: by type and model, by lower-case model only, neither, by type
\* only, a capitalised type with a one-letter model, MS inside the model
GivenDevices ==
    {Switch1, Switch2, Ap1,
     Named2(<<"Q","4">>, <<"C","o","r","e","-","2">>, <<"M","X","8","4">>,
            <<"s","w","i","t","c","h">>),
     Named2(<<"Q","5">>, <<"e","d","g","e">>, <<"m","s","2","2","5">>, NoText),
     Named2(<<"Q","6">>, <<"c","o","r","e","-","x">>, <<"M">>,
            <<"S","w","i","t","c","h">>),
     Named2(<<"Q","7">>, <<"c","o","r">>, <<"X","M","S","1">>, NoText)}

GivenFilters == {NoText, <<"C","o","r">>, <<"C","O","R","E">>, <<"z","z">>}

GivenNetworks ==
    {Net1, Net2, [ID |-> <<"n","3">>, Name |-> <<"h","q">>],
     [ID |-> <<"n","4">>, Name |-> All], [ID |-> <<"n","5">>, Name |-> NoText]}

GivenNames ==
    {All, <<"a","l","l">>, <<"A","l","L">>, <<"h","q">>, <<"H","Q">>, <<"L","A","B">>,
     <<"a","l">>, <<"a","l","l","s">>, NoText}

GivenOrgs ==
    {Org1, Org2, [ID |-> <<"o","3">>, Name |-> <<"a","c","m","e">>],
     [ID |-> <<"o","4">>, Name |-> NoText]}

GivenOrgNames == {NoText, <<"a","c","m","e">>, <<"A","C","M","E">>, <<"B","e","t","a">>,
                  <<"z","z">>}

\* What a port field of a record holds: nothing, a blank, a port
GivenPorts == {NoText, <<" ">>, <<"3">>, <<"7">>}

ListsOf(S) == UNION {[1..n -> S] : n \in 0..MaxGiven}

InitCalls ==
    /\ path = "call" /\ pc = "call"
    /\ world = [switchPort |-> Err, hostname |-> NoText]
    /\ cfg = NoCfg /\ req = NoReq
    /\ Idle /\ OverrideIdle /\ IpIdle /\ HubIdle /\ ClientIdle /\ MacIdle
    /\ \/ \E ds \in ListsOf(GivenDevices), f \in GivenFilters :
            args = [NoArgs EXCEPT !.fn = "FilterSwitches", !.devices = ds, !.filter = f]
       \/ \E n \in GivenNames, ns \in ListsOf(GivenNetworks) :
            args = [NoArgs EXCEPT !.fn = "selectNetworks", !.name = n, !.networks = ns]
       \/ \E n \in GivenOrgNames, os \in ListsOf(GivenOrgs) :
            args = [NoArgs EXCEPT !.fn = "selectOrganization", !.name = n, !.orgs = os]
       \/ \E f \in {"entryPort", "clientPort"}, ps \in [1..3 -> GivenPorts] :
            args = [NoArgs EXCEPT !.fn = f, !.fields = ps]
    /\ returned = NoReturn

\* switches := filters.FilterSwitches(devices)
\* switches = filters.FilterSwitchesByName(switches, cfg.SwitchFilter)
CallFilterSwitches ==
    /\ path = "call" /\ args.fn = "FilterSwitches" /\ ~returned.done
    /\ returned' = [NoReturn EXCEPT !.done = TRUE,
                      !.devices = FilterSwitchesByName(FilterSwitches(args.devices),
                                                       args.filter)]
    /\ UNCHANGED args
    /\ UNCHANGED <<pc, outcome, inputVars, scopeVars, netVars, jobVars, rowVars,
                   resultVars, histVars, clientVars, macVars, overrideVars, ipVars,
                   hubVars>>

Selected(sel) == [NoReturn EXCEPT !.done = TRUE, !.ok = sel.ok, !.networks = sel.networks]

\* selectNetworks(name, networks)
CallSelectNetworks ==
    /\ path = "call" /\ args.fn = "selectNetworks" /\ ~returned.done
    /\ returned' = Selected(selectNetworks(args.name, args.networks))
    /\ UNCHANGED args
    /\ UNCHANGED <<pc, outcome, inputVars, scopeVars, netVars, jobVars, rowVars,
                   resultVars, histVars, clientVars, macVars, overrideVars, ipVars,
                   hubVars>>

Chosen(sel) == [NoReturn EXCEPT !.done = TRUE, !.ok = sel.ok, !.org = sel.org]

\* selectOrganization(name, orgs)
CallSelectOrganization ==
    /\ path = "call" /\ args.fn = "selectOrganization" /\ ~returned.done
    /\ returned' = Chosen(selectOrganization(args.name, args.orgs))
    /\ UNCHANGED args
    /\ UNCHANGED <<pc, outcome, inputVars, scopeVars, netVars, jobVars, rowVars,
                   resultVars, histVars, clientVars, macVars, overrideVars, ipVars,
                   hubVars>>

\* The port of the row of a forwarding-table entry whose portId, port and
\* interface are args.fields: portID, then firstNonEmpty(portID, "unknown")
CallEntryPort ==
    /\ path = "call" /\ args.fn = "entryPort" /\ ~returned.done
    /\ returned' = [NoReturn EXCEPT !.done = TRUE,
                      !.port = firstNonEmpty(<<EntryPortID([portId |-> args.fields[1],
                                                           port |-> args.fields[2],
                                                           interface |-> args.fields[3]]),
                                              Unknown>>)]
    /\ UNCHANGED args
    /\ UNCHANGED <<pc, outcome, inputVars, scopeVars, netVars, jobVars, rowVars,
                   resultVars, histVars, clientVars, macVars, overrideVars, ipVars,
                   hubVars>>

\* The port of the row of a client record whose SwitchportName, Switchport
\* and Port are args.fields
CallClientPort ==
    /\ path = "call" /\ args.fn = "clientPort" /\ ~returned.done
    /\ returned' = [NoReturn EXCEPT !.done = TRUE,
                      !.port = firstNonEmpty(<<args.fields[1], args.fields[2],
                                              args.fields[3], Unknown>>)]
    /\ UNCHANGED args
    /\ UNCHANGED <<pc, outcome, inputVars, scopeVars, netVars, jobVars, rowVars,
                   resultVars, histVars, clientVars, macVars, overrideVars, ipVars,
                   hubVars>>

NextCalls ==
    \/ CallFilterSwitches \/ CallSelectNetworks \/ CallSelectOrganization
    \/ CallEntryPort \/ CallClientPort

SpecCalls == InitCalls /\ [][NextCalls]_vars

(***************************************************************************)
(* The log hub: handleWebSocketLogs calls, goroutines that log, one mutex  *)
(***************************************************************************)
\* Slots of a subscriber's channel (128 in the code), and messages logged
ChanCap == 2

MaxMsgs == 3

Handlers == {"h1", "h2"}

Senders == {"b1", "b2"}

Free == ""

\* unsubscribe closes the channel before it takes it out of the map
unsubscribeCloseFirst(step) ==
    CASE step = "call" -> "close"
      [] step = "close" -> "delete"
      [] step = "delete" -> "returned"

\* unsubscribe: the step after step; "delete" is Lock, delete, Unlock
unsubscribeNext(step) ==
    CASE step = "call" -> "delete"
      [] step = "delete" -> "close"
      [] step = "close" -> "returned"

\* A send that makes room by dropping the oldest message
trySendOverwrite(buf, msg) ==
    IF Len(buf) < ChanCap THEN [buf |-> Append(buf, msg), placed |-> TRUE]
    ELSE [buf |-> Append(Tail(buf), msg), placed |-> TRUE]

\* select { case ch <- msg: default: } on an open channel
trySend(buf, msg) ==
    IF Len(buf) < ChanCap THEN [buf |-> Append(buf, msg), placed |-> TRUE]
    ELSE [buf |-> buf, placed |-> FALSE]

InitHub ==
    /\ path = "hub" /\ pc = "hub"
    /\ world = [switchPort |-> Err, hostname |-> NoText]
    /\ cfg = NoCfg /\ req = NoReq
    /\ Idle /\ OverrideIdle /\ IpIdle /\ CallIdle /\ ClientIdle /\ MacIdle
    /\ hub = [mu |-> Free, clients |-> {}]
    /\ chans = [h \in Handlers |-> [made |-> FALSE, buf |-> <<>>, closed |-> FALSE]]
    /\ handlers = [h \in Handlers |->
                     [pc |-> "start", connected |-> FALSE, reader |-> "", msg |-> 0]]
    /\ senders = [b \in Senders |-> [pc |-> "idle", msg |-> 0, visited |-> {}]]
    /\ hubHist = [sent |-> 0, panicked |-> FALSE, late |-> FALSE,
                  offered |-> [h \in Handlers |-> <<>>],
                  received |-> [h \in Handlers |-> <<>>],
                  subscribedAt |-> [h \in Handlers |-> 0]]

HubRest ==
    UNCHANGED <<pc, outcome, inputVars, scopeVars, netVars, jobVars, rowVars,
                resultVars, histVars, clientVars, macVars, overrideVars, ipVars, callVars>>

\* upgrader.Upgrade fails: handleWebSocketLogs returns at once
UpgradeFails(h) ==
    /\ path = "hub" /\ ~hubHist.panicked /\ handlers[h].pc = "start"
    /\ handlers' = [handlers EXCEPT ![h].pc = "refused"]
    /\ UNCHANGED <<hub, chans, senders, hubHist>> /\ HubRest

\* Upgrade, ch := wsLogHub.subscribe(), and the reader goroutine is started
Subscribe(h) ==
    /\ path = "hub" /\ ~hubHist.panicked /\ handlers[h].pc = "start"
    /\ hub.mu = Free
    /\ hub' = [hub EXCEPT !.clients = @ \cup {h}]
    /\ chans' = [chans EXCEPT ![h] = [made |-> TRUE, buf |-> <<>>, closed |-> FALSE]]
    /\ handlers' = [handlers EXCEPT ![h] = [pc |-> "range", connected |-> TRUE,
                                            reader |-> "reading", msg |-> 0]]
    /\ hubHist' = [hubHist EXCEPT !.subscribedAt[h] = hubHist.sent]
    /\ UNCHANGED senders /\ HubRest

\* The browser goes away
Disconnect(h) ==
    /\ path = "hub" /\ ~hubHist.panicked /\ handlers[h].connected
    /\ handlers[h].pc \in {"range", "write"}
    /\ handlers' = [handlers EXCEPT ![h].connected = FALSE]
    /\ UNCHANGED <<hub, chans, senders, hubHist>> /\ HubRest

\* conn.ReadMessage returns an error: the reader goroutine returns
ReaderReturns(h) ==
    /\ path = "hub" /\ ~hubHist.panicked
    /\ handlers[h].reader = "reading" /\ ~handlers[h].connected
    /\ handlers' = [handlers EXCEPT ![h].reader = "returned"]
    /\ UNCHANGED <<hub, chans, senders, hubHist>> /\ HubRest

\* for msg := range ch: a message is taken from the channel
Receive(h) ==
    /\ path = "hub" /\ ~hubHist.panicked /\ handlers[h].pc = "range"
    /\ chans[h].buf # <<>>
    /\ handlers' = [handlers EXCEPT ![h].pc = "write", ![h].msg = Head(chans[h].buf)]
    /\ chans' = [chans EXCEPT ![h].buf = Tail(@)]
    /\ hubHist' = [hubHist EXCEPT !.received[h] = Append(@, Head(chans[h].buf))]
    /\ UNCHANGED <<hub, senders>> /\ HubRest

\* conn.WriteMessage succeeds (a write to a peer that has just gone may)
WriteMessageOK(h) ==
    /\ path = "hub" /\ ~hubHist.panicked /\ handlers[h].pc = "write"
    /\ handlers' = [handlers EXCEPT ![h].pc = "range"]
    /\ UNCHANGED <<hub, chans, senders, hubHist>> /\ HubRest

\* conn.WriteMessage fails: return, and the deferred unsubscribe(ch) runs
WriteMessageFails(h) ==
    /\ path = "hub" /\ ~hubHist.panicked /\ handlers[h].pc = "write"
    /\ ~handlers[h].connected
    /\ handlers' = [handlers EXCEPT ![h].pc = unsubscribeNext("call")]
    /\ UNCHANGED <<hub, chans, senders, hubHist>> /\ HubRest

\* unsubscribe: h.mu.Lock(); delete(h.clients, ch); h.mu.Unlock()
UnsubscribeDelete(h) ==
    /\ path = "hub" /\ ~hubHist.panicked /\ handlers[h].pc = "delete"
    /\ hub.mu = Free
    /\ hub' = [hub EXCEPT !.clients = @ \ {h}]
    /\ handlers' = [handlers EXCEPT ![h].pc = unsubscribeNext("delete")]
    /\ UNCHANGED <<chans, senders, hubHist>> /\ HubRest

\* unsubscribe: close(ch)
UnsubscribeClose(h) ==
    /\ path = "hub" /\ ~hubHist.panicked /\ handlers[h].pc = "close"
    /\ chans' = [chans EXCEPT ![h].closed = TRUE]
    /\ handlers' = [handlers EXCEPT ![h].pc = unsubscribeNext("close")]
    /\ UNCHANGED <<hub, senders, hubHist>> /\ HubRest

\* wsWriter.Write with a message: broadcast takes the mutex
BroadcastLock(b) ==
    /\ path = "hub" /\ ~hubHist.panicked /\ senders[b].pc = "idle"
    /\ hub.mu = Free /\ hubHist.sent < MaxMsgs
    /\ hub' = [hub EXCEPT !.mu = b]
    /\ senders' = [senders EXCEPT ![b] = [pc |-> "sending", msg |-> hubHist.sent + 1,
                                          visited |-> {}]]
    /\ hubHist' = [hubHist EXCEPT !.sent = @ + 1]
    /\ UNCHANGED <<chans, handlers>> /\ HubRest

\* What the history keeps of one send
Offer(msg, space, placed) == [msg |-> msg, space |-> space, placed |-> placed]

\* The send on ch has gone as sent says
Sent(b, ch, sent) ==
    /\ chans' = [chans EXCEPT ![ch].buf = sent.buf]
    /\ hubHist' = [hubHist EXCEPT
                     !.offered[ch] = Append(@, Offer(senders[b].msg,
                                                     Len(chans[ch].buf) < ChanCap,
                                                     sent.placed)),
                     !.late = @ \/ (sent.placed /\ handlers[ch].pc = "returned")]

\* One iteration of "for ch := range h.clients": the select; a send on a
\* closed channel panics
BroadcastSend(b) ==
    /\ path = "hub" /\ ~hubHist.panicked /\ senders[b].pc = "sending"
    /\ \E ch \in hub.clients \ senders[b].visited :
         /\ senders' = [senders EXCEPT ![b].visited = @ \cup {ch}]
         /\ IF chans[ch].closed
              THEN /\ hubHist' = [hubHist EXCEPT !.panicked = TRUE]
                   /\ UNCHANGED chans
              ELSE Sent(b, ch, trySend(chans[ch].buf, senders[b].msg))
    /\ UNCHANGED <<hub, handlers>> /\ HubRest

\* The loop is over: the deferred h.mu.Unlock()
BroadcastUnlock(b) ==
    /\ path = "hub" /\ ~hubHist.panicked /\ senders[b].pc = "sending"
    /\ hub.clients \ senders[b].visited = {}
    /\ hub' = [hub EXCEPT !.mu = Free]
    /\ senders' = [senders EXCEPT ![b].pc = "idle"]
    /\ UNCHANGED <<chans, handlers, hubHist>> /\ HubRest

HandlerStep(h) ==
    \/ UpgradeFails(h) \/ Subscribe(h) \/ Receive(h)
    \/ WriteMessageOK(h) \/ WriteMessageFails(h)
    \/ UnsubscribeDelete(h) \/ UnsubscribeClose(h)

NextHub ==
    \/ \E h \in Handlers : HandlerStep(h) \/ Disconnect(h) \/ ReaderReturns(h)
    \/ \E b \in Senders : BroadcastLock(b) \/ BroadcastSend(b) \/ BroadcastUnlock(b)

SpecHub == InitHub /\ [][NextHub]_vars

\* The goroutines that run are scheduled: a handler and its reader go on when
\* they can, a broadcast that holds the mutex finishes. Nothing makes the
\* program log, and nothing makes a browser leave.
SpecHubFair ==
    /\ InitHub /\ [][NextHub]_vars
    /\ \A h \in Handlers : WF_vars(HandlerStep(h)) /\ WF_vars(ReaderReturns(h))
    /\ \A b \in Senders : WF_vars(BroadcastSend(b) \/ BroadcastUnlock(b))

Init ==
    \/ InitCli \/ InitWeb \/ InitDedup \/ InitClient \/ InitMac \/ InitOverride
    \/ InitResolve \/ InitCalls \/ InitHub

Next ==
    \/ NextCli \/ NextJob \/ NextWeb \/ AddResult \/ NextClient \/ NextMac
    \/ NextOverride \/ Resolve \/ NextCalls \/ NextHub

Spec == Init /\ [][Next]_vars

(***************************************************************************)
(* Properties                                                              *)
(***************************************************************************)
\* The rows a finished run hands to its caller
FinalRows == IF path = "web" THEN allResults ELSE results

\* The address pattern of the run
Pattern == IF path = "web" THEN req.MAC ELSE cfg.mac

\* The run was given an IP address to start from
IpMode ==
    \/ path = "cli" /\ cfg.IPAddress # NoText
    \/ path = "web" /\ req.IP # NoText

\* Sweep mode: --network ALL, or a list of network ids
Sweep ==
    \/ path = "cli" /\ ToUpper(cfg.NetworkName) = All
    \/ path = "web" /\ Len(req.NetworkIDs) > 1

\* Single-target mode: a named --network, or a single networkId
SingleTarget ==
    \/ path = "cli" /\ ToUpper(cfg.NetworkName) # All
    \/ path = "web" /\ Len(req.NetworkIDs) = 0 /\ req.NetworkID # NoText

\* A fetch of a network's devices or client records failed in this run
NetworkFetchFailed == failedFetches \cap {"devices", "networkClients"} # {}

NoDuplicateTriples ==
    \A i, j \in 1..Len(results) :
        i # j => RowTriple(results[i]) # RowTriple(results[j])

DedupStep ==
    path = "dedup" =>
        /\ Len(results') >= Len(results)
        /\ SubSeq(results', 1, Len(results)) = results
        /\ (\E i \in 1..Len(results) : RowTriple(results[i]) = RowTriple(lastRow'))
              => (results' = results /\ resultsIndex' = resultsIndex)

C2_SkippedIffCompletedAndMatched ==
    hist.processed => ((hist.fallback = 0) <=> (hist.completed /\ hist.matched))

\* C2, amended: for every switch processed, the device-client fallback is
\* requested at most once, and it is skipped if and only if a row was built
\* from an entry of the completed forwarding table, that is, an entry that
\* matched the predicate and, in the CLI, also passed the --port filter.
C2_SkippedIffRowFromTable ==
    /\ hist.fallback <= 1
    /\ hist.emitted => hist.completed /\ hist.matched
    /\ hist.processed => ((hist.fallback = 0) <=> hist.emitted)

\* A switch whose table gave a row: the fallback was skipped
C2_Witness ==
    /\ hist.processed /\ hist.completed /\ hist.matched /\ hist.emitted
    /\ hist.fallback = 0

\* C3: on every path that reaches a poll loop, a forwarding-table job that
\* was created is polled at least once before the loop is left.
C3_CreatedJobIsPolled ==
    (hist.loopEnded /\ hist.jobCreated) => hist.polls >= 1

\* C4: for every switch of a pass at most one forwarding-table job is
\* created, at most MacTablePoll polls are sent for it, every poll comes
\* after a sleep of its own, and no poll is sent after a poll that answered
\* complete or an error.
C4_JobLifecycle ==
    /\ \A s \in Serials : passHist[s].macJobs <= 1
    /\ hist.polls <= cfg.MacTablePoll
    /\ hist.sleeps = hist.polls + (IF pc = "job_poll" THEN 1 ELSE 0)
    /\ ~hist.pollAfterTerminal

\* A job polled more than once, whose last poll ended the loop
C4_Witness ==
    /\ hist.jobCreated /\ hist.polls >= 2 /\ hist.terminal /\ hist.loopEnded
    /\ passHist[hist.serial].macJobs = 1

\* C5: once a poll of a forwarding-table job or of an ARP-table job has
\* answered status failed, no further poll is sent for that job.
C5_FailedIsTerminal ==
    /\ ~hist.pollAfterFailed
    /\ \A s \in Serials : ~passHist[s].arpPollAfterFailed

\* C6: on both paths, a device for which a row had no IP in its record and
\* none in the address-to-IP side table has had exactly one ARP-table job
\* in the pass, and no device has more than one.
C6_ArpOncePerDevice ==
    \A s \in Serials :
        /\ passHist[s].arpJobs <= 1
        /\ passHist[s].arpNeeded => passHist[s].arpJobs = 1

\* C7: in sweep mode a failure to fetch one network's devices or client
\* records does not end the run in an error.
C7_SweepDegrades ==
    (Sweep /\ NetworkFetchFailed) => outcome # "error"

\* C8: in single-target mode a failure to fetch the network's devices or
\* client records is reported as an error, never as a row list.
C8_SingleTargetFailsLoudly ==
    (SingleTarget /\ NetworkFetchFailed /\ pc = "done") => outcome = "error"

\* C9: a web resolution answers an empty row list only when no fetch of
\* networks, devices, network clients or device clients failed in the run.
C9_EmptyMeansNoFailure ==
    (path = "web" /\ pc = "done" /\ outcome = "rows" /\ FinalRows = <<>>)
        => failedFetches \cap {"networks", "devices", "networkClients", "deviceClients"} = {}

\* C10: a run whose address pattern does not compile sends no upstream
\* request.
C10_RejectedBeforeAnyCall ==
    (path \in {"cli", "web"} /\ ~IpMode /\ ~BuildMacMatcher(Pattern).ok) => ~upstreamCalled

\* The URLs the upstream chains together from u on, at most n of them
RECURSIVE ChainFrom(_, _, _)
ChainFrom(srv, u, n) ==
    IF u = NoText \/ n = 0 THEN <<>>
    ELSE <<u>> \o ChainFrom(srv, srv[u].next, n - 1)

\* The chain of continuation links that starts at the first page ends
ChainFinite(srv) ==
    LET chain == ChainFrom(srv, U1, Cardinality(URLs))
    IN  srv[chain[Len(chain)]].next = NoText

\* The records of the pages at urls, in that order
RECURSIVE RecordsOf(_, _)
RecordsOf(srv, urls) ==
    IF urls = <<>> THEN <<>> ELSE srv[Head(urls)].records \o RecordsOf(srv, Tail(urls))

IsPrefix(s, t) == Len(s) <= Len(t) /\ SubSeq(t, 1, Len(s)) = s

\* The running doRequest call has sent maxRetries requests, all answered 429
AllThrottled == path = "client" /\ httpHist.sent = maxRetries /\ httpHist.only429

\* The latest answer has a status of 300 or more other than 429
OtherStatus == path = "client" /\ response.status >= 300 /\ response.status # 429

C12_RetriedMaxRetriesTimes ==
    (path = "client" /\ httpPc = "returned" /\ httpHist.gaveUp /\ httpHist.arg >= 0)
        => httpHist.sent =
             1 + (IF httpHist.arg = 0 THEN DefaultMaxRetries ELSE httpHist.arg)

\* C13: an answer with a status of 300 or more other than 429 ends doRequest
\* at once: the call has returned, no sleep followed that answer, and the
\* error carries the status code and the (trimmed) body.
C13_OtherStatusEndsCall ==
    /\ path = "client" => httpHist.sleptOn \subseteq {429}
    /\ OtherStatus =>
         /\ httpPc = "returned" /\ got.err
         /\ got.error = [kind |-> "status", code |-> response.status,
                         body |-> TrimSpace(response.body)]
         /\ got.wrapper.err /\ got.wrapper.error = got.error

C13_Witness ==
    /\ OtherStatus /\ response.status = 500 /\ response.body # NoText
    /\ httpPc = "returned" /\ got.error.code = 500
    /\ got.error.body = <<"o","o","p","s">>
    /\ httpHist.sleeps >= 1 /\ httpHist.sent >= 2

\* What getAllPages does while it runs and when it has returned
PaginationInvariant ==
    path = "client" =>
      /\ IsPrefix(httpHist.arrived, ChainFrom(pages, U1, MaxPages))
      /\ (httpPc = "doRequest" =>
            /\ all = RecordsOf(pages, httpHist.arrived)
            /\ fullURL = IF httpHist.arrived = <<>> THEN U1
                         ELSE pages[httpHist.arrived[Len(httpHist.arrived)]].next)
      /\ ((httpPc = "returned" /\ ~got.err) =>
            /\ ChainFinite(pages)
            /\ httpHist.arrived = ChainFrom(pages, U1, Cardinality(URLs))
            /\ got.val = RecordsOf(pages, httpHist.arrived))
      /\ ((httpPc = "returned" /\ got.err) => got.val = <<>>)
      /\ ((\/ response.transport \/ OtherStatus \/ httpHist.gaveUp
           \/ (response.status = 200 /\ httpHist.arrived # <<>>
               /\ ~pages[httpHist.arrived[Len(httpHist.arrived)]].array))
            => (httpPc = "returned" /\ got.err))

\* C14: getAllPages requests the first page and then each rel="next" URL until
\* an answer carries none; it returns the records of every page in arrival
\* order, none lost or repeated; a failed request or a page that does not
\* decode makes it return an error and no list; and it returns whenever the
\* chain of continuation links is finite.
C14_Pagination ==
    /\ []PaginationInvariant
    /\ ((path = "client" /\ ChainFinite(pages)) ~> (httpPc = "returned"))

C14_Witness ==
    /\ path = "client" /\ httpPc = "returned" /\ ~got.err
    /\ httpHist.arrived = <<U1, U2, U3>>
    /\ Len(got.val) = 5 /\ got.val[2] = got.val[3]
    /\ Len(got.wrapper.val) = 4

(***************************************************************************)
(* pkg/macaddr: what the patterns and the addresses mean                   *)
(***************************************************************************)
HexLower == Digits \cup {"a","b","c","d","e","f"}

HexAny == HexLower \cup {"A","B","C","D","E","F"}

\* An address as its reader sees it: separators removed, letters in lower case
Plain(s) ==
    LET t == SelectSeq(s, NotSeparator)
    IN  [i \in 1..Len(t) |-> ToLowerChar(t[i])]

IsCanonical(addr) == Len(addr) = 12 /\ \A i \in 1..Len(addr) : addr[i] \in HexLower

\* The six bytes of a pattern written byte by byte
Items(parts) == [k \in 1..6 |-> parts[2 * k - 1]]

\* addr has, at every byte that is not '*', the two digits the pattern names
Satisfies(items, addr) ==
    /\ IsCanonical(addr)
    /\ \A k \in 1..6 :
         items[k] = Star \/ <<addr[2 * k - 1], addr[2 * k]>> = Plain(items[k])

HasStar(parts) == \E i \in 1..Len(parts) : parts[i] = Star

Compiled == path = "macaddr" /\ macPc \in {"compiled", "matched"}

\* C15: BuildMacMatcher on a pattern written byte by byte with at least one
\* '*' (such as 00:11:22:33:44:*) succeeds with isWildcard = true, and its
\* predicate accepts an address exactly when the address, separators removed
\* and in any letter case, is 12 hex digits that agree with every byte the
\* pattern names, each '*' standing for two arbitrary hex digits.
C15_ByteWildcard ==
    (Compiled /\ origin.kind = "bytes" /\ HasStar(origin.parts)) =>
        /\ built.ok /\ built.isWildcard
        /\ (macPc = "matched" =>
              (accepted <=> Satisfies(Items(origin.parts), Plain(subject))))

C15_Witness ==
    /\ path = "macaddr" /\ macPc = "matched" /\ input = PatWild
    /\ built.isWildcard /\ accepted
    /\ subject = Prefix10 \o <<"F","f">>

\* 0011223344xy with x in 1..4 and y any hex digit
InRanges(addr) ==
    /\ IsCanonical(addr) /\ SubSeq(addr, 1, 10) = Prefix10
    /\ addr[11] \in {"1","2","3","4"}

\* C16: BuildMacMatcher on 0011223344[1-4][0-F], also written
\* 00:11:22:33:44:[1-4][0-f], succeeds and its predicate accepts exactly the
\* addresses whose eleventh digit is 1..4 and whose twelfth is any hex digit
\* (001122334410, 00112233442A, 00112233444F; not 001122334450, 00112233440A).
C16_BracketRanges ==
    (Compiled /\ origin.kind = "brackets") =>
        /\ built.ok /\ built.isWildcard
        /\ (macPc = "matched" => (accepted <=> InRanges(Plain(subject))))

IsHexChunk(part) == part # <<>> /\ \A i \in 1..Len(part) : part[i] \in HexAny

\* What a part of a pattern counts: a hex digit 1, a bracket group 1, '*' 2
NibblesOfPart(part) ==
    IF part = Star THEN 2
    ELSE IF part = Colon THEN 0
    ELSE IF IsHexChunk(part) THEN Len(part)
    ELSE 1

RECURSIVE NibbleCount(_)
NibbleCount(parts) ==
    IF parts = <<>> THEN 0 ELSE NibblesOfPart(Head(parts)) + NibbleCount(Tail(parts))

WellFormed(parts) ==
    \A i \in 1..Len(parts) : parts[i] \in {Star, Colon, Range14} \/ IsHexChunk(parts[i])

Has(parts, part) == \E i \in 1..Len(parts) : parts[i] = part

\* The defects of a pattern, by cause
Defects(o) ==
    (IF TrimSpace(Flatten(o.parts)) = <<>> THEN {"empty"} ELSE {})
      \cup (IF o.kind = "tokens" /\ TrimSpace(Flatten(o.parts)) # <<>>
                /\ NibbleCount(o.parts) # 12 THEN {"count"} ELSE {})
      \cup (IF o.kind = "tokens" /\ Has(o.parts, LetterG) THEN {"character"} ELSE {})
      \cup (IF o.kind = "tokens" /\ Has(o.parts, OpenBracket) THEN {"unmatched"} ELSE {})
      \cup (IF o.kind = "tokens" /\ Has(o.parts, EmptyBracket) THEN {"emptyBracket"} ELSE {})
      \cup (IF o.kind = "tokens" /\ (Has(o.parts, BracketG) \/ Has(o.parts, BracketWide))
              THEN {"bracketContent"} ELSE {})

\* The errors that name each cause
ErrorsOf ==
    [empty |-> {"MAC pattern cannot be empty"},
     count |-> {"invalid MAC address length",
                "invalid MAC pattern length (need 12 nibbles)"},
     character |-> {"invalid MAC address characters", "invalid MAC pattern"},
     unmatched |-> {"unmatched bracket in MAC pattern"},
     emptyBracket |-> {"empty bracket pattern"},
     bracketContent |-> {"invalid bracket pattern"}]

\* C18: every pattern with a defect (empty, nibble count not 12, a non-hex
\* character outside brackets, '[' never closed, '[]', bracket content that
\* is neither a hex digit nor '-') is rejected, and a pattern with exactly
\* one of them is rejected with an error that names that cause and no other.
C18_ErrorsByCause ==
    Compiled =>
        /\ Defects(origin) # {} => ~built.ok
        /\ \A d \in Defects(origin) :
              Defects(origin) = {d} =>
                  /\ built.err \in ErrorsOf[d]
                  /\ \A e \in DOMAIN ErrorsOf : e # d => built.err \notin ErrorsOf[e]

\* C19: NormalizeExactMac returns an error or 12 characters each in 0-9a-f;
\* it succeeds exactly when the input without ':', '.' and '-' is 12 hex
\* digits, reports the length error when what remains is not 12 characters
\* long, and the character error when it is 12 long with a non-hex character.
C19_NormalizeCanonical ==
    (path = "macaddr" /\ macPc = "normalized") =>
        LET stripped == SelectSeq(Runes(input), NotSeparator)
            allHex == \A i \in 1..Len(stripped) : stripped[i] \in HexAny
        IN  /\ normalized.ok \/ normalized.err # ""
            /\ normalized.ok =>
                  /\ Len(Runes(normalized.val)) = 12
                  /\ \A i \in 1..Len(normalized.val) : normalized.val[i] \in HexLower
            /\ normalized.ok <=> (Len(stripped) = 12 /\ allHex)
            /\ Len(stripped) # 12 => normalized.err = "invalid MAC address length"
            /\ (Len(stripped) = 12 /\ ~allHex) =>
                  normalized.err = "invalid MAC address characters"

\* C20: for every input NormalizeExactMac accepts, normalizing the display
\* form FormatMacColon gives of the result succeeds and returns that result.
C20_NormalizeIdempotent ==
    (path = "macaddr" /\ macPc = "renormalized") =>
        /\ again.ok
        /\ again.val = normalized.val

\* C21: for every text x that NormalizeExactMac accepts, the predicate
\* BuildMacMatcher(x) returns accepts FormatMacColon(NormalizeExactMac(x)).
C21_DisplayFormAccepted ==
    (path = "macaddr" /\ macPc = "roundtrip") => accepted

NoWildcardChar(s) == ~Contains(s, <<"*">>) /\ ~Contains(s, <<"[">>)

\* xx:xx:xx:xx:xx:xx for a 12-character address
ColonForm(a) ==
    <<a[1], a[2], ":", a[3], a[4], ":", a[5], a[6], ":", a[7], a[8], ":",
      a[9], a[10], ":", a[11], a[12]>>

\* What exact mode returns and accepts, where text is what must normalize
ExactMode(text) ==
    /\ built.ok <=> NormalizeExactMac(text).ok
    /\ built.ok =>
          /\ ~built.isWildcard /\ built.re = <<>>
          /\ built.normalized = NormalizeExactMac(text).val
          /\ built.display = ColonForm(built.normalized)
          /\ IsCanonical(built.normalized) => built.normalized = Plain(text)
    /\ (macPc = "matched" /\ IsCanonical(subject)) =>
          (accepted <=> subject = built.normalized)

\* C22 as stated: for an input with neither '*' nor '[', BuildMacMatcher
\* succeeds exactly when NormalizeExactMac succeeds on that input, returns
\* isWildcard = false and the colon-separated lower-case display form, and
\* its predicate accepts the canonical address and no other canonical one.
C22_ExactMode ==
    (Compiled /\ NoWildcardChar(input)) => ExactMode(input)

\* C22, amended: as stated, with NormalizeExactMac applied to the input
\* without its leading and trailing white space.
C22_ExactModeTrimmed ==
    (Compiled /\ NoWildcardChar(input)) => ExactMode(TrimSpace(input))

C22_Witness ==
    /\ path = "macaddr" /\ macPc = "matched" /\ input = <<" ">> \o MacA
    /\ built.ok /\ ~built.isWildcard
    /\ built.display = <<"0","0",":","1","1",":","2","2",":","3","3",":","4","4",":","5","a">>
    /\ subject = Prefix10 \o <<"5","a">> /\ accepted

\* The entries of the loaded list that have both ip and hostname
ValidEntries ==
    {i \in 1..Len(loaded.entries) :
        loaded.entries[i].ip # "" /\ loaded.entries[i].hostname # ""}

\* The configured rules for an address in one scope, by position in the list
RulesIn(o, n, ip) ==
    {i \in ValidEntries :
        /\ loaded.entries[i].ip = ip
        /\ OrDefault(loaded.entries[i].org) = o
        /\ OrDefault(loaded.entries[i].net) = n}

\* The four scopes of a query, most specific first
Tiers(q) == <<<<q.org, q.net>>, <<q.org, "*">>, <<"*", q.net>>, <<"*", "*">>>>

TierRules(q, k) == RulesIn(Tiers(q)[k][1], Tiers(q)[k][2], q.ip)

Looked == path = "override" /\ ovPc = "looked"

\* C23: LookupHostOverride(ip, org, net) returns the hostname of a rule of
\* the most specific scope that holds a rule for ip, in the order org+net,
\* org+*, *+net, *+*, and the empty string when none of the four scopes
\* holds one: with an empty table, and with rules for ip under another org
\* only.
C23_LookupPrecedence ==
    Looked =>
        /\ (\A k \in 1..4 : TierRules(query, k) = {}) <=> hostname = ""
        /\ \A k \in 1..4 :
              (TierRules(query, k) # {} /\ \A l \in 1..(k - 1) : TierRules(query, l) = {})
                 => \E i \in TierRules(query, k) : hostname = loaded.entries[i].hostname

C23_Witness ==
    /\ Looked /\ loaded.entries = SetupList
    /\ query = [ip |-> "192.168.1.1", org |-> "Other", net |-> "HQ"]
    /\ hostname = "net-wildcard"

\* C24: after SetHostOverrides(input) the table holds exactly the rules of
\* that input, whatever was loaded before: every stored rule is an entry of
\* the input with ip and hostname, stored under its org and network with "*"
\* for an omitted one; every such entry has a rule for its scope and ip; and
\* the table is nil for empty input, invalid JSON and a list with no such
\* entry.
C24_LoadWholesale ==
    (path = "override" /\ ovPc \in {"loaded", "looked"}) =>
        /\ hostOverrides.nil <=> (loaded.kind # "list" \/ ValidEntries = {})
        /\ hostOverrides.nil => hostOverrides.rules = {}
        /\ loaded.kind = "list" =>
              /\ \A r \in hostOverrides.rules :
                    \E i \in ValidEntries :
                        /\ r.ip = loaded.entries[i].ip
                        /\ r.hostname = loaded.entries[i].hostname
                        /\ r.scope = ScopeKey(OrDefault(loaded.entries[i].org),
                                              OrDefault(loaded.entries[i].net))
              /\ \A i \in ValidEntries :
                    HasRule(hostOverrides.rules,
                            ScopeKey(OrDefault(loaded.entries[i].org),
                                     OrDefault(loaded.entries[i].net)),
                            loaded.entries[i].ip)

C24_Witness ==
    /\ path = "override" /\ ovPc = "loaded"
    /\ earlier.entries = SetupList
    /\ loaded.entries = <<Entry("Acme", "HQ", "", "a"), Entry("", "", "192.168.1.1", "b")>>
    /\ hostOverrides =
         [nil |-> FALSE,
          rules |-> {[scope |-> "*/*", ip |-> "192.168.1.1", hostname |-> "b"]}]

Min(S) == CHOOSE i \in S : \A j \in S : i <= j

\* C25: when the scope that decides a lookup has more than one configured
\* rule for the address, the lookup returns the hostname of the one that
\* comes first in the configuration.
C25_FirstRuleWins ==
    Looked =>
        \A k \in 1..4 :
            (/\ Cardinality(TierRules(query, k)) > 1
             /\ \A l \in 1..(k - 1) : TierRules(query, l) = {})
                => hostname = loaded.entries[Min(TierRules(query, k))].hostname

C25_Witness ==
    /\ Looked
    /\ loaded.entries = <<Entry("Acme", "HQ", "192.168.1.1", "a"),
                          Entry("Acme", "HQ", "192.168.1.1", "b")>>
    /\ query = [ip |-> "192.168.1.1", org |-> "Acme", net |-> "HQ"]
    /\ hostname = "a"

\* C26: in IP-first mode the hostname obtained while resolving the IP (the
\* reverse lookup, else the name of the matching client record) is the
\* Hostname of every row the run has emitted, in the CLI path and in the web
\* path.
C26_ResolvedHostnameOnRows ==
    (IpMode /\ resolution.done /\ ~resolution.err) =>
        /\ \A i \in 1..Len(results) : results[i].Hostname = resolution.hostname
        /\ \A i \in 1..Len(allResults) : allResults[i].Hostname = resolution.hostname

\* The records ResolveIPToMAC was given that have the address asked for, as
\* <<network, record>> positions
Hits ==
    {h \in (1..Len(ipSeen)) \X (1..(MaxClients + 1)) :
        /\ ~ipSeen[h[1]].err
        /\ h[2] <= Len(ipSeen[h[1]].val)
        /\ ipSeen[h[1]].val[h[2]].IP = ipAsked.ip}

Before(g, h) == g[1] < h[1] \/ (g[1] = h[1] /\ g[2] <= h[2])

LookupSkipped(serial, port) == serial = NoText \/ port = NoText \/ port = Unknown

\* The lookup was sent and answered
LookupAnswered(serial, port) == ~LookupSkipped(serial, port) /\ ~world.switchPort.err

\* The VLAN and mode a row is to carry, given the values of its record
EnrichedVlan(serial, port, recordVlan) ==
    IF LookupAnswered(serial, port) /\ world.switchPort.val.Vlan > 0
      THEN world.switchPort.val.Vlan ELSE recordVlan

EnrichedMode(serial, port, recordMode) ==
    IF LookupAnswered(serial, port) /\ world.switchPort.val.Type # NoText
      THEN world.switchPort.val.Type ELSE recordMode

\* The port of the row of a forwarding-table entry
EntryPort(entry) == firstNonEmpty(<<EntryPortID(entry), Unknown>>)

\* The step handles a forwarding-table entry that yields a row
EntryYieldsRow ==
    /\ pc = "entries" /\ rowI <= Len(macEntries)
    /\ EntryMatches(compiled, macEntries[rowI])
    /\ PassesPortFilter(EntryPort(macEntries[rowI]))

Carries(row, serial, entry) ==
    /\ row.SwitchSerial = serial /\ row.Port = EntryPort(entry)
    /\ row.VLAN = EnrichedVlan(serial, EntryPort(entry), entry.vlan)
    /\ row.PortMode = EnrichedMode(serial, EntryPort(entry), entry.type)

\* C28: a forwarding-table entry that matches always yields its row, whether
\* the per-port lookup was skipped (no serial, no port or port "unknown"),
\* failed or answered; the row carries the entry's own VLAN and mode, except
\* that an answered lookup replaces the mode when its type is not empty and
\* the VLAN when its VLAN is greater than 0. main hands the row on to
\* ipAndHostname and addResult with VLAN and mode as they are, and the row,
\* or an earlier row with the same key, is in the results.
C28_BestEffortEnrichment ==
    [][/\ (EntryYieldsRow /\ path = "cli") =>
            /\ pc' = "cli_ip"
            /\ Carries(pendingRow'.row, switches[devI].Serial, macEntries[rowI])
       /\ (path = "cli" /\ pendingRow # NoPending /\ pendingRow' # NoPending) =>
            pendingRow' = pendingRow
       /\ (path = "cli" /\ pendingRow # NoPending /\ pendingRow' = NoPending) =>
            /\ \E i \in 1..Len(results') :
                  ResultKey(results'[i]) = ResultKey(pendingRow.row)
            /\ Len(results') > Len(results) =>
                  /\ results'[Len(results')].VLAN = pendingRow.row.VLAN
                  /\ results'[Len(results')].PortMode = pendingRow.row.PortMode
      ]_vars

\* A row of an entry whose port is unknown and a row whose lookup answered
\* nothing usable, both with the entry's VLAN and mode
C28_Witness ==
    /\ path = "cli" /\ pc = "done" /\ outcome = "rows"
    /\ world.switchPort = Ok([Type |-> NoText, Vlan |-> 0])
    /\ \E i, j \in 1..Len(results) :
         /\ results[i].Port = Unknown /\ results[i].VLAN = 10 /\ results[i].PortMode = Access
         /\ results[j].Port = <<"3">> /\ results[j].VLAN = 10 /\ results[j].PortMode = Access

\* The text starts with the upper-case prefix, whatever the case of its letters
StartsWithFold(text, prefix) ==
    /\ Len(text) >= Len(prefix)
    /\ \A j \in 1..Len(prefix) : ToUpperChar(text[j]) = prefix[j]

\* The filter occurs in the text, whatever the case of the letters of either
HoldsFold(text, filter) ==
    \E k \in 0..(Len(text) - Len(filter)) :
        \A j \in 1..Len(filter) : ToLowerChar(text[k + j]) = ToLowerChar(filter[j])

QualifiesAsSwitch(d) ==
    \/ d.ProductType = <<"s","w","i","t","c","h">>
    \/ StartsWithFold(d.Model, <<"M","S">>)
    \/ StartsWithFold(d.Model, <<"C","9">>)

Wanted(d, filter) == QualifiesAsSwitch(d) /\ HoldsFold(d.Name, filter)

WantedAt(ds, filter) == {i \in 1..Len(ds) : Wanted(ds[i], filter)}

\* out is the wanted devices of ds, in the order of ds
IsSelection(out, ds, filter) ==
    /\ Len(out) = Cardinality(WantedAt(ds, filter))
    /\ \A i \in WantedAt(ds, filter) :
          out[Cardinality({j \in WantedAt(ds, filter) : j <= i})] = ds[i]

\* The switch-name filter of the operator (the web form has none)
OperatorFilter == IF path = "cli" THEN cfg.SwitchFilter ELSE NoText

\* A fetched device with this serial is a switch and passes the name filter
Worked(serial) ==
    \E i \in 1..Len(devices) :
        devices[i].Serial = serial /\ Wanted(devices[i], OperatorFilter)

\* C29: FilterSwitches returns, in input order, exactly the devices whose
\* productType is "switch" or whose model starts, ignoring case, with MS or
\* C9, and FilterSwitchesByName keeps of them those whose name holds the
\* filter ignoring case; the switches of a run are that selection of the
\* fetched devices, and a forwarding-table job or a device-scoped client
\* query is sent only for a device of it.
C29_SwitchClassification ==
    /\ (path = "call" /\ args.fn = "FilterSwitches" /\ returned.done) =>
          IsSelection(returned.devices, args.devices, args.filter)
    /\ path \in {"cli", "web"} =>
          /\ IsSelection(switches, devices, OperatorFilter)
          /\ hist.serial # NoText => Worked(hist.serial)
          /\ \A s \in Serials : passHist[s].macJobs > 0 => Worked(s)

\* An access point and a switch without a name are fetched with the switch
\* "core"; the filter "Cor" leaves that one switch, and its job is created
C29_Witness ==
    /\ path = "cli" /\ cfg.SwitchFilter = <<"C","o","r">>
    /\ devices = <<Switch1, Ap1, Switch2>> /\ switches = <<Switch1>>
    /\ hist.serial = Serial1 /\ hist.jobCreated /\ hist.fallback > 0

AnyCaseAll(name) ==
    /\ Len(name) = 3
    /\ name[1] \in {"a", "A"} /\ name[2] \in {"l", "L"} /\ name[3] \in {"l", "L"}

NameHits == {i \in 1..Len(args.networks) : EqualFold(args.networks[i].Name, args.name)}

\* C30: selectNetworks returns every network when the name is ALL in any
\* letter case; otherwise the one network that is the first whose name
\* equals the name ignoring case; and an error with no network when no name
\* does.
C30_SelectNetworks ==
    (path = "call" /\ args.fn = "selectNetworks" /\ returned.done) =>
        IF AnyCaseAll(args.name)
          THEN returned.ok /\ returned.networks = args.networks
        ELSE IF NameHits # {}
          THEN returned.ok /\ returned.networks = <<args.networks[Min(NameHits)]>>
        ELSE ~returned.ok /\ returned.networks = <<>>

\* Two networks answer to "hq"; the first is returned
C30_Witness ==
    /\ path = "call" /\ args.fn = "selectNetworks" /\ returned.done
    /\ args.name = <<"h","q">>
    /\ args.networks = <<Net1, [ID |-> <<"n","3">>, Name |-> <<"h","q">>]>>
    /\ returned.ok /\ returned.networks = <<Net1>>

OrgHits == {i \in 1..Len(args.orgs) : EqualFold(args.orgs[i].Name, args.name)}

\* C31: with an empty name selectOrganization returns the sole organization
\* when exactly one exists and fails otherwise; with a name it returns the
\* (first) organization whose name equals it ignoring case, and fails when no
\* organization's name does.
C31_SelectOrganization ==
    (path = "call" /\ args.fn = "selectOrganization" /\ returned.done) =>
        IF args.name = NoText
          THEN /\ returned.ok <=> Len(args.orgs) = 1
               /\ returned.ok => returned.org = args.orgs[1]
        ELSE IF OrgHits # {}
          THEN returned.ok /\ returned.org = args.orgs[Min(OrgHits)]
        ELSE ~returned.ok

\* "ACME" among Beta and Acme: Acme is returned
C31_Witness ==
    /\ path = "call" /\ args.fn = "selectOrganization" /\ returned.done
    /\ args.name = <<"A","C","M","E">> /\ args.orgs = <<Org2, Org1>>
    /\ returned.ok /\ returned.org = Org1

\* The pattern is written in upper case and without separators
CleanPattern(text) == text = ToUpper(text) /\ DropSeparators(text) = text

TailOf(text) == SubSeq(text, 11, Len(text))

\* C32: for a pattern in upper case without separators, every text
\* BuildMacRegex's expression matches has 12 characters; the expression of
\* 0011223344[1-4][0-F] has the set 1-4 in its 11th place and a range that
\* holds every hex digit in its 12th, matches 001122334410, 00112233442A and
\* 00112233444F, and does not match 001122334450 or 00112233440A.
C32_BracketRegex ==
    (path = "macaddr" /\ macPc \in {"regex", "regexMatched"} /\ CleanPattern(input)) =>
        /\ (macPc = "regexMatched" /\ accepted) => Len(subject) = 12
        /\ input = Flatten(PatBracket) =>
              /\ built.ok /\ Len(built.re) = 12
              /\ built.re[11] = {"1","2","3","4"} /\ HexUpper \subseteq built.re[12]
              /\ (macPc = "regexMatched" /\ SubSeq(subject, 1, 10) = Prefix10
                    /\ TailOf(subject) \in {<<"1","0">>, <<"2","A">>, <<"4","F">>}) => accepted
              /\ (macPc = "regexMatched" /\ SubSeq(subject, 1, 10) = Prefix10
                    /\ TailOf(subject) \in {<<"5","0">>, <<"0","A">>}) => ~accepted

\* The expression of the bracket pattern has refused a text of 13 characters
\* whose first 12 it would match
C32_Witness ==
    /\ path = "macaddr" /\ macPc = "regexMatched" /\ input = Flatten(PatBracket)
    /\ subject = Prefix10 \o <<"1","0","0">> /\ ~accepted

Blank(text) == \A i \in 1..Len(text) : text[i] \in {" ", "\t", "\n"}

\* The field of least index among those present, else "unknown"
Preferred(fields, present) ==
    IF present = {} THEN Unknown ELSE fields[Min(present)]

NonEmptyAt(fields) == {i \in 1..Len(fields) : fields[i] # NoText}

NonBlankAt(fields) == {i \in 1..Len(fields) : ~Blank(fields[i])}

\* C33: the port of a forwarding-table entry is the first non-empty of its
\* portId, port and interface fields, the port of a client record is the
\* first non-blank of switchportName, switchport and port, and the port is
\* "unknown" when none is present.
C33_PortPreference ==
    (path = "call" /\ returned.done) =>
        /\ args.fn = "entryPort" => returned.port = Preferred(args.fields, NonEmptyAt(args.fields))
        /\ args.fn = "clientPort" => returned.port = Preferred(args.fields, NonBlankAt(args.fields))

LowerHex == Digits \cup {"a","b","c","d","e","f"}

\* Six pairs of lower-case hex digits with ':' between
ColonLower(text) ==
    /\ Len(text) = 17
    /\ \A k \in 1..17 : IF k % 3 = 0 THEN text[k] = ":" ELSE text[k] \in LowerHex

\* The twelve digits of a colon-separated address
DigitsOf(text) == [i \in 1..12 |-> text[i + ((i - 1) \div 2)]]

Sound(row) == ColonLower(row.MAC) /\ matcher(compiled, DigitsOf(row.MAC))

\* C34: every row of the results, whichever source it came from, has a MAC
\* field that is a colon-separated lower-case address whose twelve digits
\* satisfy the compiled predicate. The rows a web request has collected from
\* the networks already searched are rows that were in the results of their
\* network; the predicate, compiled anew for each network, is the one of the
\* requested pattern.
C34_Soundness ==
    path \in {"cli", "web"} =>
        /\ \A i \in 1..Len(results) : Sound(results[i])
        /\ \A i \in 1..Len(allResults) :
              /\ ColonLower(allResults[i].MAC)
              /\ ~IpMode => matcher(BuildMacMatcher(Pattern), DigitsOf(allResults[i].MAC))

\* A run under 00:11:22:33:44:* whose results hold a row of the network
\* client history, a row of a forwarding table and a row of a device client
\* history, while other addresses were seen and left out
C34_Witness ==
    /\ path = "cli" /\ cfg.mac = PatWild
    /\ \E i, j, k \in 1..Len(results) :
         /\ results[i].SwitchSerial = Serial1 /\ results[i].LastSeen = T1
         /\ results[j].SwitchSerial = Serial1 /\ results[j].Port = <<"2">>
               /\ results[j].LastSeen = NoText
         /\ results[k].SwitchSerial = Serial2 /\ results[k].LastSeen = T2
    /\ \A i \in 1..Len(results) : results[i].MAC = FormatMacColon(MacA)

\* The records of the current network that the loop over networkClients has
\* passed
Handled ==
    IF pc \in {"cli_client_rows", "web_client_rows"} THEN rowI - 1
    ELSE IF pendingRow # NoPending /\ ret = "cli_client_rows" THEN rowI - 1
    ELSE Len(networkClients)

\* The name the record's switch goes by: the device's, the record's, the serial
RecordSwitchName(c) ==
    firstNonEmpty(<<DeviceBySerial(devices, TrimSpace(c.RecentDeviceSerial)).Name,
                    c.RecentDeviceName, TrimSpace(c.RecentDeviceSerial)>>)

RecordPort(c) ==
    Preferred(<<c.SwitchportName, c.Switchport, c.Port>>,
              NonBlankAt(<<c.SwitchportName, c.Switchport, c.Port>>))

\* The record's address satisfies the predicate, its serial is not blank, and
\* it passes the filters of the operator (the web form has none)
Wants(c) ==
    /\ NormalizeExactMac(c.MAC).ok
    /\ matcher(compiled, NormalizeExactMac(c.MAC).val)
    /\ ~Blank(c.RecentDeviceSerial)
    /\ path = "cli" =>
          /\ HoldsFold(RecordSwitchName(c), cfg.SwitchFilter)
          /\ Contains(RecordPort(c), cfg.PortFilter)

RecordKey(c) ==
    <<TrimSpace(c.RecentDeviceSerial), RecordPort(c),
      ColonForm(NormalizeExactMac(c.MAC).val)>>

Keys(rows) == {RowTriple(rows[i]) : i \in 1..Len(rows)}

\* C35: every network client record the run has handled whose address
\* satisfies the predicate, whose recentDeviceSerial is not blank and which
\* passes the switch-name and port filters is represented in the results by a
\* row with its device serial, port and address.
C35_HistoryComplete ==
    (path \in {"cli", "web"} /\ outcome # "error") =>
        \A i \in 1..Handled :
            Wants(networkClients[i]) => RecordKey(networkClients[i]) \in Keys(results)

\* The name of the network being searched
CurrentNetworkName ==
    IF path = "web" THEN targetNetwork.Name
    ELSE IF netI <= Len(selectedNetworks) THEN selectedNetworks[netI].Name
    ELSE NoText

\* C36: the SwitchSerial of every row of the current network is the serial of
\* one of the network's devices that FilterSwitches classifies as a switch.
C36_RowsNameSwitches ==
    path \in {"cli", "web"} =>
        \A i \in 1..Len(results) :
            (CurrentNetworkName # NoText /\ results[i].NetworkName = CurrentNetworkName) =>
                \E k \in 1..Len(devices) :
                    /\ devices[k].Serial = results[i].SwitchSerial
                    /\ QualifiesAsSwitch(devices[k])

\* C37: addResult discards a row only when an earlier row has the same
\* SwitchSerial, the same Port and the same MAC: after each call the list
\* holds a row with the three fields of the row handed in, whatever
\* characters the fields contain.
C37_KeyInjective ==
    (path = "dedup" /\ calls > 0) => RowTriple(lastRow) \in Keys(results)

\* C38: whatever the interleaving of subscribe, unsubscribe and broadcast,
\* broadcast never sends on a closed channel (the send would panic), a closed
\* channel is no longer in h.clients, and once unsubscribe(ch) has returned
\* nothing more is placed on ch: what it holds is what the handler left there.
C38_HubSafety ==
    path = "hub" =>
        /\ ~hubHist.panicked
        /\ ~hubHist.late
        /\ \A h \in Handlers :
             /\ chans[h].closed => h \notin hub.clients
             /\ handlers[h].pc = "returned" => chans[h].closed

\* A handler has unsubscribed and returned, and a later broadcast is sending
\* to the subscriber that is left
C38_Witness ==
    /\ path = "hub"
    /\ \E h \in Handlers, b \in Senders :
         /\ handlers[h].pc = "returned" /\ chans[h].closed
         /\ senders[b].pc = "sending" /\ senders[b].visited # {}
         /\ hubHist.offered[h] # <<>>
         /\ senders[b].msg > hubHist.offered[h][Len(hubHist.offered[h])].msg

\* The messages of the offers that were placed, in the order of the offers
PlacedOf(offers) ==
    LET Placed(o) == o.placed
        kept == SelectSeq(offers, Placed)
    IN  [i \in 1..Len(kept) |-> kept[i].msg]

\* The offers are of the messages first+1, first+2, ... in this order
Consecutive(offers, first) == \A i \in 1..Len(offers) : offers[i].msg = first + i

\* C39: a broadcast that holds the mutex can always take its next step, full
\* buffers or not; a send finds its place exactly when the buffer has a free
\* slot, so a subscriber with a full buffer loses the message and the others
\* get it; every subscriber is offered every message broadcast while it is in
\* h.clients, once and in broadcast order; and what a subscriber has received
\* and still has in its buffer is the placed messages, in that order.
C39_NeverBlocks ==
    path = "hub" =>
        /\ \A b \in Senders :
             senders[b].pc = "sending" => ENABLED (BroadcastSend(b) \/ BroadcastUnlock(b))
        /\ \A h \in Handlers :
             /\ \A i \in 1..Len(hubHist.offered[h]) :
                  hubHist.offered[h][i].placed = hubHist.offered[h][i].space
             /\ Consecutive(hubHist.offered[h], hubHist.subscribedAt[h])
             /\ (h \in hub.clients /\ hub.mu = Free) =>
                  hubHist.subscribedAt[h] + Len(hubHist.offered[h]) = hubHist.sent
             /\ hubHist.received[h] \o chans[h].buf = PlacedOf(hubHist.offered[h])
             /\ Len(chans[h].buf) <= ChanCap

\* A broadcast is over; one subscriber's buffer was full and it lost the
\* message, the other subscriber had room and has received it
C39_Witness ==
    /\ path = "hub" /\ hub.mu = Free
    /\ \E slow \in Handlers, quick \in Handlers :
         /\ slow # quick
         /\ Len(hubHist.offered[slow]) = MaxMsgs
         /\ ~hubHist.offered[slow][MaxMsgs].placed
         /\ Len(hubHist.offered[quick]) = MaxMsgs
         /\ hubHist.offered[quick][MaxMsgs].placed
         /\ hubHist.received[quick] # <<>>
         /\ hubHist.received[quick][Len(hubHist.received[quick])] = MaxMsgs

\* C40: once the browser of a subscribed handler has gone, the handler
\* eventually returns and its channel is out of h.clients, whether or not
\* anything is logged afterwards.
C40_CleanupLive ==
    \A h \in Handlers :
        (path = "hub" /\ handlers[h].pc \in {"range", "write"} /\ ~handlers[h].connected)
            ~> (handlers[h].pc = "returned" /\ h \notin hub.clients)

=============================================================================
